---- MODULE Spec2Model ----
(***************************************************************************)
(* A model of the dotfiles build pipeline: build.py (inventory, hosts      *)
(* document, module invocation, manifest validation, aggregation, summary) *)
(* and modules_hook.py (common/host configuration merge).                  *)
(*                                                                         *)
(* Text is a sequence of tokens (one-character or atomic pieces), so that  *)
(* trimming and concatenation are computed and not assumed.  A path is a   *)
(* sequence of components; "/" as first component marks an absolute path   *)
(* and "~" a home-relative one.  The file system holds no symbolic links.  *)
(* JSON/YAML objects are records; an absent key is an absent field.        *)
(***************************************************************************)
EXTENDS Integers, Sequences, FiniteSets, TLC

VARIABLES run, rerun, hook

vars == <<run, rerun, hook>>

(***************************************************************************)
(* Bounds of the model.                                                    *)
(***************************************************************************)
\* modules named in one host document
MaxModules == 2
\* File and Script entries over all manifests of one run, and modules of one
\* run that write to their error stream, when main() runs from its start
MaxItems == 2
MaxDiag == 1
\* File entries, Script entries, and both together over all manifests of one
\* run, when the host document names two modules that deliver manifests
MaxFoldFiles == 3
MaxFoldScripts == 2
MaxFoldItems == 4
\* modules_hook.py: the module runs that may fail in one run of the hook
MaxHookErrors == 1
\* the largest File mode a printed manifest is validated with (0o7777)
MaxMode == 4095
\* the number of Files one run of the fold under a policy takes
MaxMergeSteps == 3

(***************************************************************************)
(* Generic helpers.                                                        *)
(***************************************************************************)
Range(s) == {s[i] : i \in 1..Len(s)}

Has(r, k) == k \in DOMAIN r

\* the sequences over S of length at most n
SeqUpTo(S, n) == UNION {[1..k -> S] : k \in 0..n}

IsPrefix(p, s) == Len(p) <= Len(s) /\ \A i \in 1..Len(p) : p[i] = s[i]

RECURSIVE BitAnd(_, _)
BitAnd(a, b) ==
    IF a = 0 \/ b = 0 THEN 0
    ELSE (IF a % 2 = 1 /\ b % 2 = 1 THEN 1 ELSE 0) + 2 * BitAnd(a \div 2, b \div 2)

RECURSIVE BitOr(_, _)
BitOr(a, b) ==
    IF a = 0 THEN b
    ELSE IF b = 0 THEN a
    ELSE (IF a % 2 = 1 \/ b % 2 = 1 THEN 1 ELSE 0) + 2 * BitOr(a \div 2, b \div 2)

\* lexicographic order on token sequences, tokens compared by TokenRank
TokenRank(t) ==
    CASE t = " " -> 0
      [] t = "." -> 1
      [] t = ".." -> 2
      [] t = ".gitconfig" -> 3
      [] t = ".py" -> 4
      [] t = ".sh" -> 5
      [] t = "/" -> 6
      [] t = "README" -> 7
      [] t = "_" -> 8
      [] t = "allowed_signers" -> 9
      [] t = "conf" -> 10
      [] t = "default" -> 11
      [] t = "dot" -> 12
      [] t = "etc" -> 13
      [] t = "generate" -> 14
      [] t = "gitconfig" -> 15
      [] t = "gitignore" -> 16
      [] t = "home" -> 17
      [] t = "motd" -> 18
      [] t = "once" -> 19
      [] t = "other.conf" -> 20
      [] t = "run" -> 21
      [] t = "setup" -> 22
      [] t = "shared.conf" -> 23
      [] t = "sub" -> 24
      [] t = "~" -> 25
      [] OTHER -> 26

RECURSIVE LexLess(_, _)
LexLess(a, b) ==
    IF b = <<>> THEN FALSE
    ELSE IF a = <<>> THEN TRUE
    ELSE IF TokenRank(Head(a)) # TokenRank(Head(b))
         THEN TokenRank(Head(a)) < TokenRank(Head(b))
         ELSE LexLess(Tail(a), Tail(b))

\* sorted(S): the keys of S in ascending order
RECURSIVE Sorted(_)
Sorted(S) ==
    IF S = {} THEN <<>>
    ELSE LET m == CHOOSE x \in S : \A y \in S \ {x} : LexLess(x, y)
         IN <<m>> \o Sorted(S \ {m})

IsSorted(s) == \A i \in 1..(Len(s) - 1) : LexLess(s[i], s[i + 1])

(***************************************************************************)
(* Text and paths.                                                         *)
(***************************************************************************)
IsSpace(t) == t \in {" ", "\n"}

RECURSIVE LStrip(_)
LStrip(s) == IF s # <<>> /\ IsSpace(Head(s)) THEN LStrip(Tail(s)) ELSE s

RECURSIVE RStrip(_)
RStrip(s) ==
    IF s # <<>> /\ IsSpace(s[Len(s)]) THEN RStrip(SubSeq(s, 1, Len(s) - 1)) ELSE s

\* str.strip
Strip(s) == RStrip(LStrip(s))

\* the build root (Path.cwd()) and the home directory
Cwd == <<"/", "home", "dot">>
Home == <<"/", "home">>

\* Path.expanduser
ExpandUser(p) == IF p # <<>> /\ Head(p) = "~" THEN Home \o Tail(p) ELSE p

RECURSIVE Collapse(_, _)
Collapse(done, rest) ==
    IF rest = <<>> THEN done
    ELSE IF Head(rest) = "." THEN Collapse(done, Tail(rest))
    ELSE IF Head(rest) = ".."
         THEN Collapse(IF Len(done) > 1 THEN SubSeq(done, 1, Len(done) - 1) ELSE done,
                       Tail(rest))
    ELSE Collapse(Append(done, Head(rest)), Tail(rest))

\* Path.resolve in working directory wd: absolute, without "." and ".."
ResolveFrom(wd, p) ==
    LET abs == IF p # <<>> /\ Head(p) = "/" THEN p ELSE wd \o p
    IN Collapse(<<"/">>, Tail(abs))

Resolve(p) == ResolveFrom(Cwd, p)

\* Path.is_relative_to(cwd)
IsRelativeTo(p, root) == IsPrefix(root, p)

\* str(path.relative_to(cwd))
RelativeTo(p, root) ==
    IF Len(p) = Len(root) THEN <<".">> ELSE SubSeq(p, Len(root) + 1, Len(p))

(***************************************************************************)
(* The manifest schema of build.py and its validation.                     *)
(***************************************************************************)
\* the value None
NoneVal == [kind |-> "none"]

\* what a validator returns for a value it rejects (ValidationError)
Invalid == [kind |-> "invalid"]

\* is_valid_mode that looks at the owner and group digits only
is_valid_mode_owner_group(mode) ==
    LET u == (mode \div 64) % 8
        g == (mode \div 8) % 8
    IN \A x \in {u, g} : 4 <= x /\ x <= 7

\* is_valid_mode that also wants every bit above the low nine to be clear
is_valid_mode_nine_bits(mode) ==
    LET u == (mode \div 64) % 8
        g == (mode \div 8) % 8
        o == mode % 8
    IN mode < 512 /\ \A x \in {u, g, o} : 4 <= x /\ x <= 7

\* is_valid_mode(mode): the mode, or ValueError
is_valid_mode(mode) ==
    LET u == (mode \div 64) % 8
        g == (mode \div 8) % 8
        o == mode % 8
    IN \A x \in {u, g, o} : 4 <= x /\ x <= 7

\* mode_merge with the two policies exchanged
mode_merge_exchanged(a, b, relax) == IF relax THEN BitAnd(a, b) ELSE BitOr(a, b)

\* mode_merge whose default policy keeps the bits of a that b does not have
mode_merge_difference(a, b, relax) == IF relax THEN BitOr(a, b) ELSE a - BitAnd(a, b)

\* mode_merge(a, b, relax)
mode_merge(a, b, relax) == IF relax THEN BitOr(a, b) ELSE BitAnd(a, b)

\* File.mode when the manifest gives none (0o644)
DefaultMode == 420

ResourceKinds == {"remote", "inline", "local"}

\* ValidateResource that wants the trimmed text of an inline Resource to have
\* at least one character
ValidateResourceNonEmpty(r) ==
    IF ~Has(r, "kind") \/ ~Has(r, "source") THEN Invalid
    ELSE IF r.kind = "inline" /\ DOMAIN r = {"kind", "source"}
         THEN IF Strip(r.source) = <<>> THEN Invalid
              ELSE [kind |-> "inline", source |-> Strip(r.source)]
    ELSE IF r.kind = "local" /\ DOMAIN r = {"kind", "source"}
         THEN [kind |-> "local", source |-> r.source]
    ELSE IF r.kind = "remote" /\ DOMAIN r \subseteq {"kind", "source", "headers"}
              /\ r.source # <<>> /\ Head(r.source) = "file://"
         THEN [kind |-> "remote", source |-> r.source,
               headers |-> IF Has(r, "headers") THEN r.headers ELSE <<>>]
    ELSE Invalid

\* Resource: the union discriminated by "kind"; unknown fields are forbidden
ValidateResource(r) ==
    IF ~Has(r, "kind") \/ ~Has(r, "source") THEN Invalid
    ELSE IF r.kind = "inline" /\ DOMAIN r = {"kind", "source"}
         THEN [kind |-> "inline", source |-> Strip(r.source)]
    ELSE IF r.kind = "local" /\ DOMAIN r = {"kind", "source"}
         THEN [kind |-> "local", source |-> r.source]
    ELSE IF r.kind = "remote" /\ DOMAIN r \subseteq {"kind", "source", "headers"}
              /\ r.source # <<>> /\ Head(r.source) = "file://"
         THEN [kind |-> "remote", source |-> r.source,
               headers |-> IF Has(r, "headers") THEN r.headers ELSE <<>>]
    ELSE Invalid

\* File: path, contents (default None), append (default []), mode (default
\* 0o644, else checked by is_valid_mode), then validate_contents
ValidateFile(f) ==
    IF ~Has(f, "path") \/ ~(DOMAIN f \subseteq {"path", "contents", "append", "mode"})
    THEN Invalid
    ELSE LET contents == IF Has(f, "contents") THEN ValidateResource(f.contents)
                         ELSE NoneVal
             raw == IF Has(f, "append") THEN f.append ELSE <<>>
             append == [i \in 1..Len(raw) |-> ValidateResource(raw[i])]
             mode == IF Has(f, "mode") THEN f.mode ELSE DefaultMode
         IN IF contents = Invalid \/ Invalid \in Range(append) THEN Invalid
            ELSE IF Has(f, "mode") /\ ~is_valid_mode(mode) THEN Invalid
            ELSE IF contents = NoneVal /\ Len(append) = 0 THEN Invalid
            ELSE [path |-> f.path, contents |-> contents, append |-> append,
                  mode |-> mode]

\* ScriptType
RUN == <<"run">>
RUN_ONCE == <<"run", "_", "once">>
RUN_ONCHANGE == <<"run", "_", "onchange">>
RUN_BEFORE == <<"run", "_", "before">>
RUN_AFTER == <<"run", "_", "after">>
ScriptType == {RUN, RUN_ONCE, RUN_ONCHANGE, RUN_BEFORE, RUN_AFTER}

\* Script: name (trimmed, at least one character), type (default run_once),
\* content (a Resource)
ValidateScript(sc) ==
    IF ~Has(sc, "name") \/ ~Has(sc, "content")
       \/ ~(DOMAIN sc \subseteq {"name", "type", "content"})
    THEN Invalid
    ELSE LET name == Strip(sc.name)
             type == IF Has(sc, "type") THEN sc.type ELSE RUN_ONCE
             content == ValidateResource(sc.content)
         IN IF Len(name) < 1 \/ type \notin ScriptType \/ content = Invalid
            THEN Invalid
            ELSE [name |-> name, type |-> type, content |-> content]

\* Manifest.model_validate_json(stdout, extra="forbid")
ValidateManifest(doc) ==
    IF ~(DOMAIN doc \subseteq {"files", "scripts"}) THEN Invalid
    ELSE LET rf == IF Has(doc, "files") THEN doc.files ELSE <<>>
             rs == IF Has(doc, "scripts") THEN doc.scripts ELSE <<>>
             files == [i \in 1..Len(rf) |-> ValidateFile(rf[i])]
             scripts == [i \in 1..Len(rs) |-> ValidateScript(rs[i])]
         IN IF Invalid \in Range(files) \/ Invalid \in Range(scripts) THEN Invalid
            ELSE [files |-> files, scripts |-> scripts]

\* script_filename(script)
script_filename(script) ==
    LET type == script.type
        prefix == IF type[Len(type)] = "_" THEN SubSeq(type, 1, Len(type) - 1)
                  ELSE type
    IN prefix \o <<"_">> \o script.name \o <<".sh">>

(***************************************************************************)
(* Dictionaries keep insertion order: a dict is a sequence of entries      *)
(* [key, value] with distinct keys.                                        *)
(***************************************************************************)
Keys(d) == [i \in 1..Len(d) |-> d[i].key]

HasKey(d, k) == \E i \in 1..Len(d) : d[i].key = k

\* dict.get(k): the value, or None
Get(d, k) ==
    IF HasKey(d, k) THEN d[CHOOSE i \in 1..Len(d) : d[i].key = k].value ELSE NoneVal

\* d[k] = v
Put(d, k, v) ==
    IF HasKey(d, k)
    THEN [i \in 1..Len(d) |-> IF d[i].key = k THEN [key |-> k, value |-> v] ELSE d[i]]
    ELSE Append(d, [key |-> k, value |-> v])

(***************************************************************************)
(* The environment of a run: the module directories on disk and what the   *)
(* inventory command, hosts.yaml and the module executables deliver.       *)
(***************************************************************************)
Entry(n, x) == [name |-> n, file |-> TRUE, exec |-> x]

NoDir == [kind |-> "nodir"]

Dir(entries) == [kind |-> "dir", entries |-> entries]

\* <root>/modules/<name> for every module name a host document may use
ModuleDirs ==
    [m1 |-> Dir({Entry(<<"generate", ".py">>, TRUE)}),
     m2 |-> Dir({Entry(<<"generate", ".py">>, FALSE), Entry(<<"generate", ".sh">>, TRUE),
                 Entry(<<"README">>, FALSE)}),
     git |-> Dir({Entry(<<"generate", ".py">>, TRUE)}),
     stub |-> Dir({Entry(<<"generate", ".py">>, FALSE), Entry(<<"default">>, TRUE)}),
     ghost |-> NoDir]

ModuleNames == DOMAIN ModuleDirs

\* resolve_module_executable(root, name): the path, or ValueError
resolve_module_executable(name) ==
    LET dir == ModuleDirs[name]
    IN IF dir.kind # "dir" THEN [ok |-> FALSE, error |-> "module_dir_not_found"]
       ELSE LET candidates == Sorted({e.name : e \in
                                   {x \in dir.entries : x.file /\ Head(x.name) = "generate"}})
                runnable == {i \in 1..Len(candidates) :
                               \E e \in dir.entries : e.name = candidates[i] /\ e.exec}
            IN IF runnable = {} THEN [ok |-> FALSE, error |-> "no_executable"]
               ELSE [ok |-> TRUE,
                     path |-> <<"modules", name>>
                              \o candidates[CHOOSE i \in runnable :
                                              \A j \in runnable : i <= j]]

Inline(text) == [kind |-> "inline", source |-> text]

Local(path) == [kind |-> "local", source |-> path]

\* the File objects a module may print (0o644 = 420, 0o654 = 428, 0o645 = 421,
\* 0o640 = 416)
FileA == [path |-> <<"shared.conf">>, contents |-> Inline(<<"c1">>), mode |-> 420]
FileB == [path |-> <<"~", "dot", "shared.conf">>, contents |-> Inline(<<"c2">>),
          append |-> <<Inline(<<" ", "a2">>)>>, mode |-> 428]
FileC == [path |-> <<"sub", "..", "shared.conf">>, append |-> <<Inline(<<"a1">>)>>,
          mode |-> 421]
FileD == [path |-> <<"shared.conf">>, append |-> <<Inline(<<"a1">>)>>, mode |-> 416]
FileE == [path |-> <<"other.conf">>, contents |-> Local(<<"res">>)]
FileF == [path |-> <<"/", "etc", "motd">>, contents |-> Inline(<<"c1">>)]
FileH == [path |-> <<"other.conf">>]

RawFiles == {FileA, FileB, FileC, FileD, FileE, FileF, FileH}

\* the Script objects a module may print
ScriptA == [name |-> <<" ", "setup", " ">>, content |-> Inline(<<"b1">>)]
ScriptC == [name |-> <<"once", "_", "setup">>, type |-> RUN, content |-> Inline(<<"b3">>)]
ScriptD == [name |-> <<"setup">>, type |-> RUN, content |-> Inline(<<"b4">>)]
ScriptE == [name |-> <<" ">>, content |-> Inline(<<"b5">>)]

RawScripts == {ScriptA, ScriptC, ScriptD, ScriptE}

\* what a module prints on its output stream
StdoutEmpty == [kind |-> "empty"]
StdoutBlank == [kind |-> "blank"]
StdoutText == [kind |-> "text"]

\* what a module writes to its error stream: nothing, or a diagnostic
NoDiag == <<>>
Diag == <<"warn", "\n">>
StdoutJson(doc) == [kind |-> "json", doc |-> doc]

\* the JSON documents a module may print, within the budget left: the
\* documents made of valid objects, and documents that hold one invalid object
\* or an unknown key
RawManifests(nfiles, nscripts, nitems) ==
    {m \in {[files |-> f, scripts |-> sc] :
              f \in SeqUpTo({x \in RawFiles : ValidateFile(x) # Invalid}, nfiles),
              sc \in SeqUpTo({x \in RawScripts : ValidateScript(x) # Invalid},
                             nscripts)} :
        Len(m.files) + Len(m.scripts) <= nitems}
    \cup {[files |-> <<f>>] : f \in {x \in RawFiles : nfiles > 0 /\ nitems > 0}}
    \cup {[scripts |-> <<sc>>] : sc \in {x \in RawScripts : nscripts > 0 /\ nitems > 0}}
    \cup {[files |-> <<>>, scripts |-> <<>>, version |-> <<"1">>]}

\* the result of one subprocess.run of a module: exit code, output stream,
\* and whether the error stream holds text
ProcessResults(nfiles, nscripts, nitems, diag) ==
    {[exit |-> c, stdout |-> StdoutEmpty, stderr |-> e] :
        c \in {1, 2}, e \in {NoDiag, Diag}}
    \cup {[exit |-> 0, stdout |-> o, stderr |-> e] :
            o \in {StdoutEmpty, StdoutText}, e \in IF diag THEN {NoDiag, Diag} ELSE {NoDiag}}
    \cup {[exit |-> 0, stdout |-> StdoutJson(doc), stderr |-> e] :
            doc \in RawManifests(nfiles, nscripts, nitems),
            e \in IF diag THEN {NoDiag, Diag} ELSE {NoDiag}}

(***************************************************************************)
(* The bundled git module, modules/git/generate.py.                        *)
(***************************************************************************)
\* BASE_DIR of the git module
GitBaseDir == Cwd \o <<"modules", "git">>

\* relative_location(v): the path relative to BASE_DIR; ValueError unless
\* InBaseDir(v)
InBaseDir(v) == IsRelativeTo(ResolveFrom(GitBaseDir, ExpandUser(v)), GitBaseDir)

relative_location(v) == RelativeTo(ResolveFrom(GitBaseDir, ExpandUser(v)), GitBaseDir)

\* NonEmptyStr of the git module: the trimmed text, of at least one character
NonEmpty(x) == Len(Strip(x)) >= 1

\* EmailStr: local part, "@", domain
ValidEmail(e) == Len(e) = 3 /\ e[2] = "@"

\* AllowedSignerOptions
ValidateAllowedSigners(a) ==
    IF ~Has(a, "location") \/ ~(DOMAIN a \subseteq {"location", "entries"}) THEN Invalid
    ELSE IF ~InBaseDir(a.location) THEN Invalid
    ELSE [location |-> relative_location(a.location),
          entries |-> IF Has(a, "entries") THEN a.entries ELSE <<>>]

\* SignOptions: the union discriminated by "format"
ValidateSign(sg) ==
    IF ~Has(sg, "format") \/ ~Has(sg, "key") THEN Invalid
    ELSE IF sg.format = "openpgp" /\ DOMAIN sg = {"format", "key"}
         THEN IF ~NonEmpty(sg.key) THEN Invalid
              ELSE [format |-> "openpgp", key |-> Strip(sg.key)]
    ELSE IF sg.format = "ssh" /\ DOMAIN sg \subseteq {"format", "key", "allowed_signers"}
         THEN LET signers == IF Has(sg, "allowed_signers")
                             THEN ValidateAllowedSigners(sg.allowed_signers)
                             ELSE NoneVal
              IN IF ~InBaseDir(sg.key) \/ signers = Invalid THEN Invalid
                 ELSE [format |-> "ssh", key |-> relative_location(sg.key),
                       allowed_signers |-> signers]
    ELSE Invalid

\* GlobalExcludeOptions
ValidateGlobalExclude(g) ==
    IF ~Has(g, "location") \/ ~(DOMAIN g \subseteq {"location", "entries"}) THEN Invalid
    ELSE IF ~InBaseDir(g.location) THEN Invalid
    ELSE [location |-> relative_location(g.location),
          entries |-> IF Has(g, "entries") THEN g.entries ELSE <<>>]

\* InputData of the git module: name, email, sign (default None),
\* global_exclude (default None); unknown keys are forbidden
GitInputData(d) ==
    IF ~Has(d, "name") \/ ~Has(d, "email")
       \/ ~(DOMAIN d \subseteq {"name", "email", "sign", "global_exclude"})
    THEN Invalid
    ELSE LET sign == IF Has(d, "sign") THEN ValidateSign(d.sign) ELSE NoneVal
             excl == IF Has(d, "global_exclude")
                     THEN ValidateGlobalExclude(d.global_exclude) ELSE NoneVal
         IN IF ~NonEmpty(d.name) \/ ~ValidEmail(d.email)
               \/ sign = Invalid \/ excl = Invalid
            THEN Invalid
            ELSE [name |-> Strip(d.name), email |-> d.email, sign |-> sign,
                  global_exclude |-> excl]

\* "\n".join(lines) + "\n"
RECURSIVE Join(_)
Join(lines) ==
    IF Len(lines) = 0 THEN <<>>
    ELSE IF Len(lines) = 1 THEN <<lines[1]>>
    ELSE <<lines[1], "\n">> \o Join(Tail(lines))

JoinLines(lines) == Join(lines) \o <<"\n">>

\* main() of the git module on the payload's data: the process result.
\* A ValidationError or ValueError is caught and ends the process with
\* exit(1); `payload.data.sign.format` with sign None raises AttributeError,
\* which nothing catches, and the interpreter ends with status 1.
GitMain(d) ==
    LET data == GitInputData(d)
        failed == [exit |-> 1, stdout |-> StdoutEmpty, stderr |-> Diag]
    IN IF data = Invalid THEN failed
       ELSE LET config == <<[path |-> <<".gitconfig">>,
                             contents |-> Inline(<<"gitconfig", "\n">>)]>>
            IN IF data.sign = NoneVal THEN failed
               ELSE LET signers ==
                            IF data.sign.format = "ssh"
                               /\ data.sign.allowed_signers # NoneVal
                            THEN <<[path |-> data.sign.allowed_signers.location,
                                    contents |-> Inline(JoinLines(
                                        data.sign.allowed_signers.entries))]>>
                            ELSE <<>>
                        excludes ==
                            IF data.global_exclude # NoneVal
                            THEN <<[path |-> data.global_exclude.location,
                                    contents |-> Inline(JoinLines(
                                        data.global_exclude.entries))]>>
                            ELSE <<>>
                    IN [exit |-> 0,
                        stdout |-> StdoutJson([files |-> config \o signers \o excludes]),
                        stderr |-> NoDiag]

\* the configurations a host document may give the git module
GitBasic == [name |-> <<"A">>, email |-> <<"a", "@", "x.com">>]
GitPgp == [name |-> <<"A">>, email |-> <<"a", "@", "x.com">>,
           sign |-> [format |-> "openpgp", key |-> <<"KEYID">>]]
GitSsh == [name |-> <<" ", "A">>, email |-> <<"a", "@", "x.com">>,
           sign |-> [format |-> "ssh", key |-> <<"id.pub">>,
                     allowed_signers |-> [location |-> <<".", "allowed_signers">>,
                                          entries |-> <<"e1">>]],
           global_exclude |-> [location |-> <<"gitignore">>]]
GitOutside == [name |-> <<"A">>, email |-> <<"a", "@", "x.com">>,
               sign |-> [format |-> "ssh", key |-> <<"..", "id.pub">>]]
GitNoEmail == [name |-> <<"A">>]

GitConfigs == {GitBasic, GitPgp, GitSsh, GitOutside, GitNoEmail}

(***************************************************************************)
(* The bundled ssh module, modules/ssh/generate.py.                        *)
(***************************************************************************)
\* BASE_DIR of the ssh module
SshBaseDir == Cwd \o <<"modules", "ssh">>

\* the key types ssh_type_map knows, with the names it gives them
SshTypeMap ==
    {<<"sk-ssh-ed25519@openssh.com", "ed25519_sk">>,
     <<"sk-ecdsa-sha2-nistp256@openssh.com", "ecdsa_sk">>,
     <<"ssh-rsa", "rsa">>,
     <<"ssh-ed25519", "ed25519">>,
     <<"ecdsa-sha2-nistp256", "ecdsa">>}

\* ssh_type_map(ssh_type): the name of the type, or "None"
ssh_type_map(ssh_type) ==
    IF \E p \in SshTypeMap : p[1] = ssh_type
    THEN (CHOOSE p \in SshTypeMap : p[1] = ssh_type)[2]
    ELSE "None"

\* key.split(): the words of a key
Parts(key) == SelectSeq(key, LAMBDA t : ~IsSpace(t))

\* sep.join(texts)
RECURSIVE JoinTexts(_, _)
JoinTexts(texts, sep) ==
    IF Len(texts) = 0 THEN <<>>
    ELSE IF Len(texts) = 1 THEN texts[1]
    ELSE texts[1] \o sep \o JoinTexts(Tail(texts), sep)

\* the elements of a sequence, each once, in order of first appearance
RECURSIVE Distinct(_)
Distinct(q) ==
    IF q = <<>> THEN <<>>
    ELSE <<Head(q)>> \o Distinct(SelectSeq(Tail(q), LAMBDA x : x # Head(q)))

\* f".ssh/id_{name}.pub" for the name of key number idx of a type: the type,
\* followed by "_alt{idx}" for every key after the first
PubFile(key_type, idx) ==
    CASE key_type = "ed25519_sk" /\ idx = 0 -> "id_ed25519_sk.pub"
      [] key_type = "ed25519_sk" /\ idx = 1 -> "id_ed25519_sk_alt1.pub"
      [] key_type = "ecdsa_sk" /\ idx = 0 -> "id_ecdsa_sk.pub"
      [] key_type = "ecdsa_sk" /\ idx = 1 -> "id_ecdsa_sk_alt1.pub"
      [] key_type = "rsa" /\ idx = 0 -> "id_rsa.pub"
      [] key_type = "rsa" /\ idx = 1 -> "id_rsa_alt1.pub"
      [] key_type = "ed25519" /\ idx = 0 -> "id_ed25519.pub"
      [] key_type = "ed25519" /\ idx = 1 -> "id_ed25519_alt1.pub"
      [] key_type = "ecdsa" /\ idx = 0 -> "id_ecdsa.pub"
      [] key_type = "ecdsa" /\ idx = 1 -> "id_ecdsa_alt1.pub"

\* InputData of the ssh module: keys (default []), output_pubs and
\* host_declarations (default False); unknown keys are ignored
SshInputData(d) ==
    [keys |-> IF Has(d, "keys") THEN d.keys ELSE <<>>,
     output_pubs |-> IF Has(d, "output_pubs") THEN d.output_pubs ELSE FALSE,
     host_declarations |-> IF Has(d, "host_declarations") THEN d.host_declarations
                           ELSE FALSE]

\* main() of the ssh module on the payload's data: the process result. A
\* key that is blank, has fewer than two words or an unknown type ends the
\* process with exit(1); otherwise the document is printed, its resources
\* written as {"inline": ...} and {"local": ...}.
SshMain(d) ==
    LET data == SshInputData(d)
        keys == [i \in 1..Len(data.keys) |-> Strip(data.keys[i])]
        TypeOf(key) == ssh_type_map(Head(Parts(key)))
        bad == \E i \in 1..Len(keys) :
                   \/ keys[i] = <<>>
                   \/ Len(Parts(keys[i])) < 2
                   \/ TypeOf(keys[i]) = "None"
    IN IF bad THEN [exit |-> 1, stdout |-> StdoutEmpty, stderr |-> Diag]
       ELSE LET types == Distinct([i \in 1..Len(keys) |-> TypeOf(keys[i])])
                OfType(ty) == SelectSeq(keys, LAMBDA k : TypeOf(k) = ty)
                RECURSIVE Pubs(_)
                Pubs(tys) ==
                    IF tys = <<>> THEN <<>>
                    ELSE [idx \in 1..Len(OfType(Head(tys))) |->
                             [path |-> <<".ssh", PubFile(Head(tys), idx - 1)>>,
                              contents |-> [inline |-> OfType(Head(tys))[idx]
                                                       \o <<"\n">>]]]
                         \o Pubs(Tail(tys))
                RECURSIVE Values(_)
                Values(tys) == IF tys = <<>> THEN <<>>
                               ELSE OfType(Head(tys)) \o Values(Tail(tys))
                files ==
                    (IF data.output_pubs THEN Pubs(types) ELSE <<>>)
                    \o <<[path |-> <<".ssh", "authorized_keys">>,
                          contents |-> [inline |-> JoinTexts(Values(types), <<"\n">>)
                                                   \o <<"\n">>]]>>
                    \o <<[path |-> <<".ssh", "config">>,
                          contents |-> [local |-> SshBaseDir \o <<"config">>]]>>
                    \o (IF data.host_declarations
                        THEN <<[path |-> <<".ssh", "config_hosts">>,
                                contents |-> [local |-> SshBaseDir
                                                        \o <<"config_hosts">>]]>>
                        ELSE <<>>)
            IN [exit |-> 0, stdout |-> StdoutJson([files |-> files]),
                stderr |-> NoDiag]

\* keys a host document may list
SshKeyA == <<"ssh-ed25519", " ", "AAAA">>
SshKeyB == <<" ", "ssh-rsa", " ", "BBBB", " ", "me@host", "\n">>
SshKeyC == <<"ssh-ed25519", " ", "CCCC">>

\* the configurations a host document may give the ssh module
SshConfigs ==
    {[output_pubs |-> FALSE],
     [keys |-> <<SshKeyA>>],
     [keys |-> <<SshKeyA, SshKeyB>>, output_pubs |-> TRUE],
     [keys |-> <<SshKeyA, SshKeyC>>, output_pubs |-> TRUE, host_declarations |-> TRUE],
     [keys |-> <<SshKeyB>>, host_declarations |-> TRUE, comment |-> <<"x">>],
     [keys |-> <<<<" ">>>>],
     [keys |-> <<<<"ssh-rsa">>>>],
     [keys |-> <<SshKeyA, <<"ssh-dss", " ", "DDDD">>>>]}

(***************************************************************************)
(* The bundled fish module, modules/fish/generate.py.                      *)
(***************************************************************************)
\* BASE_DIR of the fish module
FishBaseDir == Cwd \o <<"modules", "fish">>

FISHER_SOURCE == <<"jorgebucaran/fisher">>

DEFAULT_CONFIG ==
    <<"# Default config", "\n", "set -g fish_greeting", "\n",
      "fish_add_path -m ~/.local/bin", "\n">>

\* the plugin names of the model, in sorted order
PluginOrder == <<<<"a/plug">>, FISHER_SOURCE, <<"z/plug">>>>

\* dict[NonEmptyStr, NonEmptyStr]: keys and values trimmed, each of at least
\* one character; a key that repeats after trimming keeps its last value
ValidDict(raw) ==
    \A i \in 1..Len(raw) : Len(Strip(raw[i].key)) >= 1 /\ Len(Strip(raw[i].value)) >= 1

RECURSIVE ValidateDict(_, _)
ValidateDict(raw, done) ==
    IF raw = <<>> THEN done
    ELSE ValidateDict(Tail(raw), Put(done, Strip(Head(raw).key), Strip(Head(raw).value)))

\* ConfigOptions
ValidateConfigOptions(c) ==
    IF ~(DOMAIN c \subseteq {"override_default", "content", "abbreviations",
                             "manual_config"})
    THEN Invalid
    ELSE LET abbr == IF Has(c, "abbreviations") THEN ValidateDict(c.abbreviations, <<>>)
                     ELSE <<>>
         IN IF (Has(c, "abbreviations") /\ ~ValidDict(c.abbreviations))
               \/ (Has(c, "content") /\ Len(Strip(c.content)) < 1)
               \/ (Has(c, "manual_config") /\ Len(Strip(c.manual_config)) < 1)
            THEN Invalid
            ELSE [override_default |-> IF Has(c, "override_default")
                                       THEN c.override_default ELSE FALSE,
                  content |-> IF Has(c, "content") THEN Strip(c.content) ELSE <<>>,
                  abbreviations |-> abbr,
                  manual_config |-> IF Has(c, "manual_config")
                                    THEN Strip(c.manual_config) ELSE <<>>]

\* FisherOptions, with validate_plugins: the plugins sorted and without
\* repetition, FISHER_SOURCE moved or put in front
ValidateFisherOptions(f) ==
    IF ~(DOMAIN f \subseteq {"update", "plugins"}) THEN Invalid
    ELSE LET raw == IF Has(f, "plugins") THEN f.plugins ELSE <<>>
             v == {Strip(raw[i]) : i \in 1..Len(raw)}
         IN IF <<>> \in v THEN Invalid
            ELSE [update |-> IF Has(f, "update") THEN f.update ELSE FALSE,
                  plugins |-> <<FISHER_SOURCE>>
                              \o SelectSeq(PluginOrder,
                                           LAMBDA x : x \in v /\ x # FISHER_SOURCE)]

\* InputData of the fish module; unknown keys are forbidden
FishInputData(d) ==
    IF ~(DOMAIN d \subseteq {"switch_shell", "config", "fisher", "functions"})
    THEN Invalid
    ELSE LET config == IF Has(d, "config") THEN ValidateConfigOptions(d.config)
                       ELSE NoneVal
             fisher == IF Has(d, "fisher") THEN ValidateFisherOptions(d.fisher)
                       ELSE NoneVal
             functions == IF Has(d, "functions") THEN ValidateDict(d.functions, <<>>)
                          ELSE <<>>
         IN IF (Has(d, "switch_shell") /\ d.switch_shell \notin {"bash", "zsh"})
               \/ config = Invalid \/ fisher = Invalid
               \/ (Has(d, "functions") /\ ~ValidDict(d.functions))
            THEN Invalid
            ELSE [switch_shell |-> IF Has(d, "switch_shell") THEN d.switch_shell
                                   ELSE "",
                  config |-> config, fisher |-> fisher, functions |-> functions]

\* f"{func_name}.fish"
FishFile(func_name) ==
    CASE func_name = <<"greet">> -> "greet.fish"
      [] func_name = <<"mkcd">> -> "mkcd.fish"
      [] func_name = <<"manual_config">> -> "manual_config.fish"
      [] func_name = <<"fisher_check">> -> "fisher_check.fish"

\* f"switch_{switch_shell}.sh"
SwitchFile(switch_shell) == IF switch_shell = "bash" THEN "switch_bash.sh"
                            ELSE "switch_zsh.sh"

\* main() of the fish module on the payload's data, with the set of files
\* present in BASE_DIR: the process result. A ValidationError, or the
\* ValueError of resource_path for a file that is not there, ends the
\* process with exit(1).
FishMain(d, present) ==
    LET data == FishInputData(d)
        failed == [exit |-> 1, stdout |-> StdoutEmpty, stderr |-> Diag]
    IN IF data = Invalid THEN failed
       ELSE IF data.switch_shell # "" /\ SwitchFile(data.switch_shell) \notin present
       THEN failed
       ELSE IF data.fisher # NoneVal /\ "fisher_check.fish" \notin present THEN failed
       ELSE
        LET switch ==
                IF data.switch_shell # ""
                THEN <<[path |-> <<IF data.switch_shell = "bash" THEN ".bashrc"
                                   ELSE ".zshrc">>,
                        append |-> <<Local(FishBaseDir
                                           \o <<SwitchFile(data.switch_shell)>>)>>]>>
                ELSE <<>>
            functions ==
                [i \in 1..Len(data.functions) |->
                    [path |-> <<".config", "fish", "functions",
                                FishFile(data.functions[i].key)>>,
                     contents |-> Inline(Strip(data.functions[i].value) \o <<"\n">>)]]
            manual ==
                <<"function manual_config", "\n">>
                \o (IF data.config # NoneVal /\ data.config.manual_config # <<>>
                    THEN data.config.manual_config
                    ELSE <<"    echo 'Nothing to do.'">>)
                \o <<"\n", "end", "\n">>
            fisher ==
                IF data.fisher # NoneVal
                THEN <<[path |-> <<".config", "fish", "functions", "fisher_check.fish">>,
                        contents |-> Local(FishBaseDir \o <<"fisher_check.fish">>)]>>
                ELSE <<>>
            abbr == IF data.config # NoneVal THEN data.config.abbreviations ELSE <<>>
            blocks ==
                (IF data.config # NoneVal /\ data.config.override_default THEN <<>>
                 ELSE <<DEFAULT_CONFIG>>)
                \o (IF data.fisher # NoneVal
                    THEN <<<<"# Fisher plugins check", "\n", "fisher_check">>
                           \o (IF data.fisher.update THEN <<" -u">> ELSE <<>>)
                           \o <<" ">>
                           \o JoinTexts([i \in 1..Len(data.fisher.plugins) |->
                                            <<"'">> \o data.fisher.plugins[i]
                                            \o <<"'">>], <<" ">>)>>
                    ELSE <<>>)
                \o (IF data.config # NoneVal /\ data.config.content # <<>>
                    THEN <<<<"# Host config", "\n">> \o data.config.content>>
                    ELSE <<>>)
                \o (IF Len(abbr) > 0
                    THEN <<<<"# Abbreviations", "\n", "if status is-interactive", "\n">>
                           \o JoinTexts([i \in 1..Len(abbr) |->
                                  <<"    abbr -a -- ">> \o abbr[i].key \o <<" ", "'">>
                                  \o abbr[i].value \o <<"'", "\n">>], <<>>)
                           \o <<"end">>>>
                    ELSE <<>>)
            config_content ==
                SelectSeq([i \in 1..Len(blocks) |-> Strip(blocks[i])],
                          LAMBDA b : b # <<>>)
            files ==
                switch \o functions
                \o <<[path |-> <<".config", "fish", "functions", "manual_config.fish">>,
                      contents |-> Inline(manual)]>>
                \o fisher
                \o <<[path |-> <<".config", "fish", "config.fish">>,
                      contents |-> Inline(JoinTexts(config_content, <<"\n", "\n">>)
                                          \o <<"\n">>)]>>
        IN [exit |-> 0, stdout |-> StdoutJson([files |-> files]), stderr |-> NoDiag]

\* the files BASE_DIR of the fish module may hold
FishPresent ==
    {{"switch_bash.sh", "switch_zsh.sh", "fisher_check.fish"}, {"switch_bash.sh"}}

\* the configurations a host document may give the fish module
FishConfigs ==
    {[switch_shell |-> "bash"],
     [switch_shell |-> "zsh",
      functions |-> <<[key |-> <<"greet">>, value |-> <<"echo hi", "\n">>]>>],
     [switch_shell |-> "fish"],
     [config |-> [override_default |-> TRUE]],
     [config |-> [content |-> <<"set -x EDITOR vi", "\n">>,
                  manual_config |-> <<"    echo manual">>,
                  abbreviations |-> <<[key |-> <<"g">>, value |-> <<"git">>]>>]],
     [config |-> [content |-> <<" ">>]],
     [config |-> [theme |-> <<"dark">>]],
     [fisher |-> [update |-> TRUE,
                  plugins |-> <<<<"z/plug">>, <<"a/plug">>, <<"z/plug">>>>]],
     [fisher |-> [plugins |-> <<FISHER_SOURCE>>],
      config |-> [override_default |-> TRUE]],
     [functions |-> <<[key |-> <<"greet">>, value |-> <<"echo hi">>],
                      [key |-> <<" ", "greet">>, value |-> <<"echo ho">>],
                      [key |-> <<"mkcd">>, value |-> <<"mkdir -p $argv">>]>>],
     [functions |-> <<[key |-> <<"manual_config">>, value |-> <<"echo mine">>]>>],
     [functions |-> <<[key |-> <<"fisher_check">>, value |-> <<"echo mine">>]>>,
      fisher |-> [update |-> FALSE]],
     [functions |-> <<[key |-> <<"greet">>, value |-> <<" ">>]>>]}

(***************************************************************************)
(* build.py: the state of one run of main().                               *)
(*   pc             where main() stands                                    *)
(*   status         the exit status; -1 while running                      *)
(*   inventory      what `chezmoi data` delivered                          *)
(*   hosts_file     what hosts.yaml holds                                  *)
(*   hostname, host_config, manifests, module_names, file_sources,         *)
(*   script_sources, file_paths, script_names: the locals of main()        *)
(*   idx, fold      the positions of the two loops over modules            *)
(*   log            the logging calls made, in order                       *)
(*   budget         how much the modules of this run may still print       *)
(*   calls          the module executables started, in order, with what    *)
(*                  each delivered                                         *)
(***************************************************************************)
Running == -1

Start ==
    [pc |-> "load_chezmoi", status |-> Running, inventory |-> NoneVal,
     hosts_file |-> NoneVal, hostname |-> <<>>, host_config |-> <<>>, idx |-> 1,
     manifests |-> <<>>, module_names |-> <<>>, fold |-> 1, file_sources |-> <<>>,
     script_sources |-> <<>>, file_paths |-> <<>>, script_names |-> <<>>,
     log |-> <<>>, calls |-> <<>>,
     budget |-> [files |-> MaxItems, scripts |-> MaxItems, items |-> MaxItems,
                 diag |-> MaxDiag]]

LogEntry(level, event, subject, code) ==
    [level |-> level, event |-> event, subject |-> subject, code |-> code]

\* logging.critical(...) followed by sys.exit(1)
Fatal(s, event, subject, code) ==
    [s EXCEPT !.pc = "exit", !.status = 1,
              !.log = Append(@, LogEntry("critical", event, subject, code))]

\* an exception nothing catches: traceback, interpreter exit status 1
Uncaught(s) == [s EXCEPT !.pc = "exit", !.status = 1]

\* what `chezmoi data --format=json` may deliver
Inventories ==
    {[kind |-> "failed"], [kind |-> "not_json"], [kind |-> "not_object"]}
    \cup {[kind |-> "object", hostname |-> h] :
            h \in {[t |-> "str", v |-> <<"myhost">>], [t |-> "str", v |-> <<>>],
                   [t |-> "null"]}}

\* main(), lines 253-257, with load_chezmoi_data
LoadChezmoi(s, t, inv) ==
    /\ s.pc = "load_chezmoi"
    /\ LET s1 == [s EXCEPT !.inventory = inv]
       IN IF inv.kind = "failed" THEN t = Fatal(s1, "chezmoi_failed", <<>>, 1)
          ELSE IF inv.kind = "not_json" THEN t = Fatal(s1, "chezmoi_invalid_json", <<>>, 0)
          ELSE IF inv.kind = "not_object" THEN t = Uncaught(s1)
          ELSE IF inv.hostname.t # "str" \/ inv.hostname.v = <<>>
               THEN t = Fatal(s1, "no_hostname", <<>>, 0)
          ELSE t = [s1 EXCEPT !.pc = "load_hosts", !.hostname = inv.hostname.v]

\* a module's configuration in a host document
Null == [t |-> "null"]
Scalar == [t |-> "scalar"]
Mapping(v) == [t |-> "map", v |-> v]

Configs(name) ==
    {Null, Scalar} \cup
    (IF name = "git" THEN {Mapping(g) : g \in GitConfigs}
     ELSE {Mapping([option |-> <<"on">>])})

\* the host entries: mappings from distinct module names to configurations,
\* in document order
HostMappings ==
    {hc \in SeqUpTo([name : ModuleNames, data : UNION {Configs(n) : n \in ModuleNames}],
                    MaxModules) :
        /\ \A i \in 1..Len(hc) : hc[i].data \in Configs(hc[i].name)
        /\ \A i, j \in 1..Len(hc) : i # j => hc[i].name # hc[j].name}

\* what hosts.yaml may hold
HostsFiles ==
    {[kind |-> "missing"], [kind |-> "yaml_error"], [kind |-> "no_hosts_mapping"],
     [kind |-> "hosts", host |-> <<"other">>, entry |-> Mapping(<<>>)]}
    \cup {[kind |-> "hosts", host |-> <<"myhost">>, entry |-> e] :
            e \in {Null, Scalar} \cup {Mapping(hc) : hc \in HostMappings}}

\* load_hosts(path): the hosts mapping, or exit
load_hosts(doc) ==
    IF doc.kind = "missing" THEN [ok |-> FALSE, event |-> "hosts_not_found"]
    ELSE IF doc.kind = "yaml_error" THEN [ok |-> FALSE, event |-> "hosts_parse_error"]
    ELSE IF doc.kind # "hosts" THEN [ok |-> FALSE, event |-> "hosts_key_missing"]
    ELSE [ok |-> TRUE, hosts |-> <<[key |-> doc.host, value |-> doc.entry]>>]

\* where main() goes after the loop over host_config has reached position i
AfterModule(s, i, manifests) ==
    IF i <= Len(s.host_config) THEN "modules"
    ELSE IF Len(manifests) > 0 THEN "aggregate"
    ELSE "summary"

\* main(), lines 259-272, with load_hosts
LoadHosts(s, t, doc) ==
    /\ s.pc = "load_hosts"
    /\ LET s1 == [s EXCEPT !.hosts_file = doc]
           loaded == load_hosts(doc)
       IN IF ~loaded.ok THEN t = Fatal(s1, loaded.event, <<>>, 0)
          ELSE LET host_config == Get(loaded.hosts, s.hostname)
               IN IF host_config = NoneVal \/ host_config.t = "null"
                  THEN t = Fatal(s1, "host_not_found", s.hostname, 0)
                  ELSE IF host_config.t # "map"
                  THEN t = Fatal(s1, "host_not_mapping", s.hostname, 0)
                  ELSE LET s2 == [s1 EXCEPT !.host_config = host_config.v]
                       IN t = [s2 EXCEPT !.pc = AfterModule(s2, 1, <<>>)]

\* run_module that takes an empty output stream for an empty manifest
run_module_accepts_empty(name, r) ==
    LET stdout == IF r.stdout.kind = "blank" THEN StdoutEmpty ELSE r.stdout
        stderr == Strip(r.stderr)
    IN IF r.exit # 0
       THEN [ok |-> FALSE, event |-> "module_failed", code |-> r.exit, stderr |-> stderr,
             warned |-> FALSE]
       ELSE IF stdout.kind = "empty"
       THEN [ok |-> TRUE, manifest |-> [files |-> <<>>, scripts |-> <<>>],
             warned |-> stderr # <<>>]
       ELSE IF stdout.kind # "json" \/ ValidateManifest(stdout.doc) = Invalid
       THEN [ok |-> FALSE, event |-> "invalid_manifest", code |-> 0,
             warned |-> stderr # <<>>]
       ELSE [ok |-> TRUE, manifest |-> ValidateManifest(stdout.doc),
             warned |-> stderr # <<>>]

\* run_module that takes text on the error stream of a module for a failure
run_module_stderr_fails(name, r) ==
    LET stdout == IF r.stdout.kind = "blank" THEN StdoutEmpty ELSE r.stdout
        stderr == Strip(r.stderr)
    IN IF r.exit # 0 \/ stderr # <<>>
       THEN [ok |-> FALSE, event |-> "module_failed", code |-> r.exit, stderr |-> stderr,
             warned |-> FALSE]
       ELSE IF stdout.kind = "empty"
       THEN [ok |-> FALSE, event |-> "module_no_output", code |-> 0, warned |-> FALSE]
       ELSE IF stdout.kind # "json" \/ ValidateManifest(stdout.doc) = Invalid
       THEN [ok |-> FALSE, event |-> "invalid_manifest", code |-> 0, warned |-> FALSE]
       ELSE [ok |-> TRUE, manifest |-> ValidateManifest(stdout.doc), warned |-> FALSE]

\* run_module(executable, payload) on the process result r: the manifest, or
\* the ValueError; stdout and stderr are trimmed first, and text on stderr is
\* logged as a warning once the process has exited with status 0
run_module(name, r) ==
    LET stdout == IF r.stdout.kind = "blank" THEN StdoutEmpty ELSE r.stdout
        stderr == Strip(r.stderr)
    IN IF r.exit # 0
       THEN [ok |-> FALSE, event |-> "module_failed", code |-> r.exit, stderr |-> stderr,
             warned |-> FALSE]
       ELSE IF stdout.kind = "empty"
       THEN [ok |-> FALSE, event |-> "module_no_output", code |-> 0,
             warned |-> stderr # <<>>]
       ELSE IF stdout.kind # "json" \/ ValidateManifest(stdout.doc) = Invalid
       THEN [ok |-> FALSE, event |-> "invalid_manifest", code |-> 0,
             warned |-> stderr # <<>>]
       ELSE [ok |-> TRUE, manifest |-> ValidateManifest(stdout.doc),
             warned |-> stderr # <<>>]

RECURSIVE SumLen(_, _)
SumLen(manifests, field) ==
    IF manifests = <<>> THEN 0
    ELSE Len(Head(manifests).value[field]) + SumLen(Tail(manifests), field)

\* the modules started so far that wrote to their error stream
Diagnosed(s) == Cardinality({i \in 1..Len(s.calls) : s.calls[i].result.stderr # NoDiag})

\* what the module at the loop position may deliver, if it is started
Deliveries(s) ==
    IF s.pc # "modules" THEN {}
    ELSE LET item == s.host_config[s.idx]
         IN IF item.data.t # "map" \/ ~resolve_module_executable(item.name).ok
            THEN {NoneVal}
            ELSE IF item.name = "git" THEN {GitMain(item.data.v)}
            ELSE LET nfiles == SumLen(s.manifests, "files")
                     nscripts == SumLen(s.manifests, "scripts")
                 IN ProcessResults(s.budget.files - nfiles,
                                   s.budget.scripts - nscripts,
                                   s.budget.items - (nfiles + nscripts),
                                   Diagnosed(s) < s.budget.diag)

\* RunModule that logs a module's failure and goes on with the next module
RunModuleBestEffort(s, t, r) ==
    /\ s.pc = "modules"
    /\ LET name == s.host_config[s.idx].name
           data == s.host_config[s.idx].data
           executable == resolve_module_executable(name)
       IN IF data.t = "null"
          THEN t = [s EXCEPT !.log = Append(@, LogEntry("warning", "module_null",
                                                        <<name>>, 0)),
                             !.idx = s.idx + 1,
                             !.pc = AfterModule(s, s.idx + 1, s.manifests)]
          ELSE IF data.t # "map"
          THEN t = Fatal(s, "config_not_mapping", <<name>>, 0)
          ELSE IF ~executable.ok
          THEN t = Fatal(s, executable.error, <<name>>, 0)
          ELSE LET res == run_module(name, r)
                   s1 == [s EXCEPT !.calls = Append(@, [name |-> name,
                                                        executable |-> executable.path,
                                                        data |-> data, result |-> r])]
               IN IF ~res.ok
                  THEN t = [s1 EXCEPT !.log = Append(@, LogEntry("critical", res.event,
                                                                 <<name>>, res.code)),
                                      !.idx = s.idx + 1,
                                      !.pc = AfterModule(s, s.idx + 1, s.manifests)]
                  ELSE LET manifests == Put(s.manifests, name, res.manifest)
                       IN t = [s1 EXCEPT !.manifests = manifests,
                                         !.idx = s.idx + 1,
                                         !.pc = AfterModule(s, s.idx + 1, manifests)]

\* RunModule that starts a failed module again instead of ending the build
RunModuleRetry(s, t, r) ==
    /\ s.pc = "modules"
    /\ LET name == s.host_config[s.idx].name
           data == s.host_config[s.idx].data
           executable == resolve_module_executable(name)
       IN IF data.t = "null"
          THEN t = [s EXCEPT !.log = Append(@, LogEntry("warning", "module_null",
                                                        <<name>>, 0)),
                             !.idx = s.idx + 1,
                             !.pc = AfterModule(s, s.idx + 1, s.manifests)]
          ELSE IF data.t # "map"
          THEN t = Fatal(s, "config_not_mapping", <<name>>, 0)
          ELSE IF ~executable.ok
          THEN t = Fatal(s, executable.error, <<name>>, 0)
          ELSE LET res == run_module(name, r)
                   s1 == [s EXCEPT !.calls = Append(@, [name |-> name,
                                                        executable |-> executable.path,
                                                        data |-> data, result |-> r])]
               IN IF ~res.ok
                  THEN IF Len(s.calls) < MaxModules THEN t = s1
                       ELSE t = Fatal(s1, res.event, <<name>>, res.code)
                  ELSE LET manifests == Put(s.manifests, name, res.manifest)
                       IN t = [s1 EXCEPT !.manifests = manifests,
                                         !.idx = s.idx + 1,
                                         !.pc = AfterModule(s, s.idx + 1, manifests)]

\* main(), lines 274-294: one turn of the loop over host_config
RunModule(s, t, r) ==
    /\ s.pc = "modules"
    /\ LET name == s.host_config[s.idx].name
           data == s.host_config[s.idx].data
           executable == resolve_module_executable(name)
       IN IF data.t = "null"
          THEN t = [s EXCEPT !.log = Append(@, LogEntry("warning", "module_null",
                                                        <<name>>, 0)),
                             !.idx = s.idx + 1,
                             !.pc = AfterModule(s, s.idx + 1, s.manifests)]
          ELSE IF data.t # "map"
          THEN t = Fatal(s, "config_not_mapping", <<name>>, 0)
          ELSE IF ~executable.ok
          THEN t = Fatal(s, executable.error, <<name>>, 0)
          ELSE LET res == run_module(name, r)
                   s1 == [s EXCEPT !.calls = Append(@, [name |-> name,
                                                        executable |-> executable.path,
                                                        data |-> data, result |-> r])]
                   s2 == IF res.warned
                         THEN [s1 EXCEPT !.log = Append(@, LogEntry("warning",
                                                     "module_stderr", <<name>>, 0))]
                         ELSE s1
               IN IF ~res.ok THEN t = Fatal(s2, res.event, <<name>>, res.code)
                  ELSE LET manifests == Put(s.manifests, name, res.manifest)
                       IN t = [s2 EXCEPT !.manifests = manifests,
                                         !.idx = s.idx + 1,
                                         !.pc = AfterModule(s, s.idx + 1, manifests)]

\* FoldFile that does not adopt the contents of the incoming File
FoldFileNoAdopt(acc, file, module_name) ==
    IF acc.fatal THEN acc
    ELSE LET path == Resolve(ExpandUser(file.path))
         IN IF ~IsRelativeTo(path, Cwd)
            THEN [acc EXCEPT !.log = Append(@, LogEntry("warning", "skip_path",
                                                        file.path, 0))]
            ELSE LET key == RelativeTo(path, Cwd)
                     current == Get(acc.file_sources, key)
                 IN IF current # NoneVal
                    THEN IF file.contents # NoneVal /\ current.contents # NoneVal
                         THEN [acc EXCEPT !.fatal = TRUE,
                                          !.log = Append(@, LogEntry("critical",
                                                     "duplicate_file", key, 0))]
                         ELSE [acc EXCEPT !.file_sources = Put(@, key,
                                  [current EXCEPT
                                      !.append = @ \o file.append,
                                      !.mode = mode_merge(@, file.mode, FALSE)])]
                    ELSE [acc EXCEPT !.file_sources = Put(@, key, file)]

\* FoldFile that warns about a path outside the build root and enters the
\* File in the table all the same, under its absolute path
FoldFileNoSkip(acc, file, module_name) ==
    IF acc.fatal THEN acc
    ELSE LET path == Resolve(ExpandUser(file.path))
         IN IF ~IsRelativeTo(path, Cwd)
            THEN [acc EXCEPT !.log = Append(@, LogEntry("warning", "skip_path",
                                                        file.path, 0)),
                             !.file_sources = Put(@, path, file)]
            ELSE LET key == RelativeTo(path, Cwd)
                     current == Get(acc.file_sources, key)
                 IN IF current # NoneVal
                    THEN IF file.contents # NoneVal /\ current.contents # NoneVal
                         THEN [acc EXCEPT !.fatal = TRUE,
                                          !.log = Append(@, LogEntry("critical",
                                                     "duplicate_file", key, 0))]
                         ELSE [acc EXCEPT !.file_sources = Put(@, key,
                                  [current EXCEPT
                                      !.contents = IF file.contents # NoneVal
                                                   THEN file.contents ELSE @,
                                      !.append = @ \o file.append,
                                      !.mode = mode_merge(@, file.mode, FALSE)])]
                    ELSE [acc EXCEPT !.file_sources = Put(@, key, file)]

\* main(), lines 301-323: one File of a manifest is folded into the table
FoldFile(acc, file, module_name) ==
    IF acc.fatal THEN acc
    ELSE LET path == Resolve(ExpandUser(file.path))
         IN IF ~IsRelativeTo(path, Cwd)
            THEN [acc EXCEPT !.log = Append(@, LogEntry("warning", "skip_path",
                                                        file.path, 0))]
            ELSE LET key == RelativeTo(path, Cwd)
                     current == Get(acc.file_sources, key)
                 IN IF current # NoneVal
                    THEN IF file.contents # NoneVal /\ current.contents # NoneVal
                         THEN [acc EXCEPT !.fatal = TRUE,
                                          !.log = Append(@, LogEntry("critical",
                                                     "duplicate_file", key, 0))]
                         ELSE [acc EXCEPT !.file_sources = Put(@, key,
                                  [current EXCEPT
                                      !.contents = IF file.contents # NoneVal
                                                   THEN file.contents ELSE @,
                                      !.append = @ \o file.append,
                                      !.mode = mode_merge(@, file.mode, FALSE)])]
                    ELSE [acc EXCEPT !.file_sources = Put(@, key, file)]

\* FoldScript that lets a later Script replace the entry of its filename
FoldScriptReplace(acc, script, module_name) ==
    IF acc.fatal THEN acc
    ELSE [acc EXCEPT !.script_sources = Put(@, script_filename(script), script)]

\* main(), lines 325-332: one Script of a manifest is entered in the table
FoldScript(acc, script, module_name) ==
    IF acc.fatal THEN acc
    ELSE LET name == script_filename(script)
         IN IF HasKey(acc.script_sources, name)
            THEN [acc EXCEPT !.fatal = TRUE,
                             !.log = Append(@, LogEntry("critical", "duplicate_script",
                                                        name, 0))]
            ELSE [acc EXCEPT !.script_sources = Put(@, name, script)]

RECURSIVE FoldFiles(_, _, _)
FoldFiles(acc, files, module_name) ==
    IF files = <<>> THEN acc
    ELSE FoldFiles(FoldFile(acc, Head(files), module_name), Tail(files), module_name)

RECURSIVE FoldScripts(_, _, _)
FoldScripts(acc, scripts, module_name) ==
    IF scripts = <<>> THEN acc
    ELSE FoldScripts(FoldScript(acc, Head(scripts), module_name), Tail(scripts),
                     module_name)

\* main(), lines 296-332: one turn of the loop over manifests
Aggregate(s, t) ==
    /\ s.pc = "aggregate"
    /\ LET module_name == s.manifests[s.fold].key
           manifest == s.manifests[s.fold].value
           acc0 == [file_sources |-> s.file_sources,
                    script_sources |-> s.script_sources, log |-> s.log,
                    fatal |-> FALSE]
           acc == FoldScripts(FoldFiles(acc0, manifest.files, module_name),
                              manifest.scripts, module_name)
       IN t = [s EXCEPT !.module_names = Keys(s.manifests),
                        !.file_sources = acc.file_sources,
                        !.script_sources = acc.script_sources,
                        !.log = acc.log,
                        !.fold = s.fold + 1,
                        !.status = IF acc.fatal THEN 1 ELSE @,
                        !.pc = IF acc.fatal THEN "exit"
                               ELSE IF s.fold < Len(s.manifests) THEN "aggregate"
                               ELSE "summary"]

\* the orders in which the elements of S can be listed
Orders(S) == {q \in SeqUpTo(S, Cardinality(S)) : Range(q) = S /\ Len(q) = Cardinality(S)}

\* Summary that lists the paths and filenames in whatever order a set yields
SummaryAnyOrder(s, t) ==
    /\ s.pc = "summary"
    /\ \E file_paths \in Orders(Range(Keys(s.file_sources))),
          script_names \in Orders(Range(Keys(s.script_sources))) :
          t = [s EXCEPT !.module_names = Keys(s.manifests),
                        !.file_paths = file_paths,
                        !.script_names = script_names,
                        !.log = @ \o <<LogEntry("info", "build_summary", s.hostname,
                                                Len(file_paths)),
                                       LogEntry("debug", "generation_summary",
                                                s.hostname, Len(script_names))>>,
                        !.status = 0,
                        !.pc = "exit"]

\* Summary that puts the two summaries in front of everything logged so far
SummaryFirst(s, t) ==
    /\ s.pc = "summary"
    /\ LET file_paths == Sorted(Range(Keys(s.file_sources)))
           script_names == Sorted(Range(Keys(s.script_sources)))
       IN t = [s EXCEPT !.module_names = Keys(s.manifests),
                        !.file_paths = file_paths,
                        !.script_names = script_names,
                        !.log = <<LogEntry("info", "build_summary", s.hostname,
                                           Len(file_paths)),
                                  LogEntry("debug", "generation_summary",
                                           s.hostname, Len(script_names))>> \o @,
                        !.status = 0,
                        !.pc = "exit"]

\* main(), lines 334-358: the two summaries; main() returns
Summary(s, t) ==
    /\ s.pc = "summary"
    /\ LET file_paths == Sorted(Range(Keys(s.file_sources)))
           script_names == Sorted(Range(Keys(s.script_sources)))
       IN t = [s EXCEPT !.module_names = Keys(s.manifests),
                        !.file_paths = file_paths,
                        !.script_names = script_names,
                        !.log = @ \o <<LogEntry("info", "build_summary", s.hostname,
                                                Len(file_paths)),
                                       LogEntry("debug", "generation_summary",
                                                s.hostname, Len(script_names))>>,
                        !.status = 0,
                        !.pc = "exit"]

(***************************************************************************)
(* modules_hook.py: the context, the merge of the common and the host      *)
(* configuration, and the run of every module of the merged configuration. *)
(***************************************************************************)
Num(n) == [t |-> "num", v |-> n]

List(v) == [t |-> "list", v |-> v]

RECURSIVE Merge(_, _)
RECURSIVE MergeItems(_, _)
\* deepmerge's dict strategy: every key of nxt is set in base, merged with
\* the value base has under it
MergeItems(base, items) ==
    IF items = <<>> THEN base
    ELSE LET k == Head(items).key
             v == Head(items).value
         IN MergeItems(Put(base, k, IF HasKey(base, k) THEN Merge(Get(base, k), v) ELSE v),
                       Tail(items))

\* Merge under which the sequence of nxt takes the place of the sequence of base
MergeListsReplaced(base, nxt) ==
    IF base.t = "map" /\ nxt.t = "map" THEN Mapping(MergeItems(base.v, nxt.v))
    ELSE nxt

\* always_merger.merge(base, nxt): two lists are appended, two dicts are
\* merged, anything else is overridden by nxt
Merge(base, nxt) ==
    IF base.t = "list" /\ nxt.t = "list" THEN List(base.v \o nxt.v)
    ELSE IF base.t = "map" /\ nxt.t = "map" THEN Mapping(MergeItems(base.v, nxt.v))
    ELSE nxt

\* str.lower() on the type part of a module name
Lower(tok) ==
    CASE tok = "System" -> "system"
      [] tok = "User" -> "user"
      [] OTHER -> tok

ModuleType == {"system", "user"}

\* module names, "<type>/<rest>", as the pair name.partition("/") splits them in
UserA == <<"user", "a">>
UserB == <<"user", "b">>
SystemC == <<"System", "c">>
MiscD == <<"misc", "d">>

\* what lies at source_dir.parent / type / rest
HookTree(name) ==
    IF name = UserA THEN [kind |-> "file", exec |-> TRUE]
    ELSE IF name = UserB
    THEN Dir({Entry(<<"default", ".sh">>, TRUE), Entry(<<"default", ".py">>, TRUE),
              Entry(<<"default">>, FALSE), Entry(<<"README">>, TRUE)})
    ELSE NoDir

\* Module.__init__, lines 76-89: the paths the lookup may settle on; iterdir()
\* yields the entries of a directory in no particular order
ModulePaths(name) ==
    LET at == HookTree(name)
    IN IF at.kind = "file" /\ at.exec THEN {<<name[1], name[2]>>}
       ELSE IF at.kind = "dir"
       THEN {<<name[1], name[2]>> \o e.name :
                e \in {x \in at.entries : Head(x.name) = "default" /\ x.exec}}
       ELSE {}

\* the configurations of a module in the common and in the host entry
CommonConfigs ==
    {Null,
     Mapping(<<[key |-> "k", value |-> Mapping(<<[key |-> "n", value |-> Num(1)]>>)],
               [key |-> "l", value |-> List(<<1>>)]>>)}

HostConfigs ==
    {Null,
     Mapping(<<[key |-> "k", value |-> Mapping(<<[key |-> "n", value |-> Null]>>)],
               [key |-> "l", value |-> List(<<2>>)]>>),
     Mapping(<<[key |-> "k", value |-> Null], [key |-> "j", value |-> Num(2)]>>)}

\* a ModulesList: distinct module names with their configurations, in
\* document order
ModulesLists(names, configs) ==
    {d \in SeqUpTo([key : names, value : configs], MaxModules) :
        \A i, j \in 1..Len(d) : i # j => d[i].key # d[j].key}

\* what `chezmoi data --format=json` may deliver to get_context()
Contexts ==
    {[kind |-> "failed"], [kind |-> "invalid"]}
    \cup {[kind |-> "ok", source_dir |-> sd, hostname |-> h, common |-> c, host |-> NoneVal] :
            sd \in {"dir", "not_dir", "none"},
            h \in {[t |-> "str", v |-> <<"myhost">>], [t |-> "null"]},
            c \in {NoneVal, Mapping(<<>>)}}
    \cup {[kind |-> "ok", source_dir |-> "dir", hostname |-> [t |-> "str", v |-> <<"myhost">>],
           common |-> Mapping(c), host |-> Mapping(h)] :
            c \in ModulesLists({UserA, UserB}, CommonConfigs),
            h \in ModulesLists({UserA, UserB, SystemC, MiscD}, HostConfigs)}

HookStart ==
    [pc |-> "get_context", status |-> Running, dry_run |-> FALSE, ctx |-> NoneVal,
     common |-> <<>>, modules |-> <<>>, i |-> 1, j |-> 1, log |-> <<>>,
     invoked |-> <<>>, printed |-> <<>>, errors |-> MaxHookErrors]

\* where main() stands once i - 1 entries of common and j - 1 entries of
\* modules are done
HookAfter(common, modules, i, j) ==
    IF i <= Len(common) THEN "merge"
    ELSE IF j <= Len(modules) THEN "run"
    ELSE "exit"

\* what leaving main() by its return statement sets
HookReturn(pc, status) == IF pc = "exit" THEN 0 ELSE status

\* main(), lines 138-170, with get_context()
GetContext(s, t, ctx, dry_run) ==
    /\ s.pc = "get_context"
    /\ LET s1 == [s EXCEPT !.ctx = ctx, !.dry_run = dry_run]
       IN IF ctx.kind = "failed" THEN t = Fatal(s1, "context_failed", <<>>, 1)
          ELSE IF ctx.kind = "invalid" THEN t = Fatal(s1, "context_invalid", <<>>, 0)
          ELSE IF ctx.source_dir = "none" THEN t = Fatal(s1, "no_source_dir", <<>>, 0)
          ELSE IF ctx.source_dir # "dir" THEN t = Fatal(s1, "source_dir_not_dir", <<>>, 0)
          ELSE IF ctx.common = NoneVal THEN t = Fatal(s1, "no_common", <<>>, 0)
          ELSE IF ctx.hostname.t # "str" \/ ctx.hostname.v = <<>>
               THEN t = Fatal(s1, "no_hostname", <<>>, 0)
          ELSE LET common == ctx.common.v
                   modules == IF ctx.host = NoneVal THEN <<>> ELSE ctx.host.v
                   pc == HookAfter(common, modules, 1, 1)
               IN t = [s1 EXCEPT !.common = common, !.modules = modules,
                                 !.pc = pc, !.status = HookReturn(pc, @)]

\* MergeStep that drops the host entry of a module common maps to null
MergeStepCommonNullDrops(s, t) ==
    /\ s.pc = "merge"
    /\ LET name == s.common[s.i].key
           global_data == s.common[s.i].value
           host_data == Get(s.modules, name)
           modules == IF global_data = Null
                      THEN SelectSeq(s.modules, LAMBDA e : e.key # name)
                      ELSE IF ~HasKey(s.modules, name)
                           THEN Put(s.modules, name, global_data)
                      ELSE IF host_data = Null
                           THEN SelectSeq(s.modules, LAMBDA e : e.key # name)
                      ELSE Put(s.modules, name, Merge(global_data, host_data))
           pc == HookAfter(s.common, modules, s.i + 1, 1)
       IN t = [s EXCEPT !.modules = modules,
                        !.log = IF global_data = Null
                                THEN Append(@, LogEntry("warning", "common_null", name, 0))
                                ELSE @,
                        !.i = s.i + 1, !.pc = pc, !.status = HookReturn(pc, @)]

\* MergeStep that takes a host null for a missing host entry
MergeStepNullAsMissing(s, t) ==
    /\ s.pc = "merge"
    /\ LET name == s.common[s.i].key
           global_data == s.common[s.i].value
           host_data == Get(s.modules, name)
           modules == IF global_data = Null THEN s.modules
                      ELSE IF host_data = NoneVal \/ host_data = Null
                           THEN Put(s.modules, name, global_data)
                      ELSE Put(s.modules, name, Merge(global_data, host_data))
           pc == HookAfter(s.common, modules, s.i + 1, 1)
       IN t = [s EXCEPT !.modules = modules,
                        !.log = IF global_data = Null
                                THEN Append(@, LogEntry("warning", "common_null", name, 0))
                                ELSE @,
                        !.i = s.i + 1, !.pc = pc, !.status = HookReturn(pc, @)]

\* main(), lines 172-189: one turn of the loop over common
MergeStep(s, t) ==
    /\ s.pc = "merge"
    /\ LET name == s.common[s.i].key
           global_data == s.common[s.i].value
           host_data == Get(s.modules, name)
           modules == IF global_data = Null THEN s.modules
                      ELSE IF ~HasKey(s.modules, name)
                           THEN Put(s.modules, name, global_data)
                      ELSE IF host_data = Null
                           THEN SelectSeq(s.modules, LAMBDA e : e.key # name)
                      ELSE Put(s.modules, name, Merge(global_data, host_data))
           pc == HookAfter(s.common, modules, s.i + 1, 1)
       IN t = [s EXCEPT !.modules = modules,
                        !.log = IF global_data = Null
                                THEN Append(@, LogEntry("warning", "common_null", name, 0))
                                ELSE @,
                        !.i = s.i + 1, !.pc = pc, !.status = HookReturn(pc, @)]

\* how Module(...), generate() and process() may end once the executable
\* is found
Outcomes == {"schema_failed", "schema_not_json", "input_invalid", "generate_failed",
             "output_not_json", "output_invalid", "ok"}

HookOutput == [files |-> <<[path |-> <<".gitconfig">>]>>]

\* what the environment delivers to one turn of the loop over modules
HookDeliveries(s) ==
    IF s.pc # "run" THEN {}
    ELSE LET name == s.modules[s.j].key
             data == s.modules[s.j].value
         IN IF data = Null \/ Lower(name[1]) \notin ModuleType \/ ModulePaths(name) = {}
            THEN {NoneVal}
            ELSE {[path |-> p, outcome |-> o] :
                    p \in ModulePaths(name),
                    o \in IF s.errors > 0 THEN Outcomes ELSE {"ok"}}

\* main(), lines 191-207: one turn of the loop over modules
RunStep(s, t, d) ==
    /\ s.pc = "run"
    /\ LET name == s.modules[s.j].key
           data == s.modules[s.j].value
           pc == HookAfter(s.common, s.modules, s.i, s.j + 1)
           s1 == [s EXCEPT !.j = s.j + 1, !.pc = pc, !.status = HookReturn(pc, @)]
       IN IF data = Null
          THEN t = [s1 EXCEPT !.log = Append(@, LogEntry("warning", "module_null", name, 0))]
          ELSE IF Lower(name[1]) \notin ModuleType
          THEN t = [s1 EXCEPT !.log = Append(@, LogEntry("error", "invalid_type", name, 0))]
          ELSE IF ModulePaths(name) = {}
          THEN t = [s1 EXCEPT !.log = Append(@, LogEntry("error", "not_found", name, 0))]
          ELSE LET s2 == [s1 EXCEPT !.invoked = Append(@, [name |-> name, path |-> d.path,
                                                           data |-> data,
                                                           outcome |-> d.outcome])]
               IN IF d.outcome # "ok"
                  THEN t = [s2 EXCEPT !.log = Append(@, LogEntry("error", d.outcome, name, 0)),
                                      !.errors = @ - 1]
                  ELSE t = [s2 EXCEPT !.printed = IF s.dry_run
                                                  THEN Append(@, [name |-> name,
                                                                  output |-> HookOutput])
                                                  ELSE @]

(***************************************************************************)
(* One run of build.py, or one run of modules_hook.py.                     *)
(***************************************************************************)
Idle == [Start EXCEPT !.pc = "idle"]

HookIdle == [HookStart EXCEPT !.pc = "idle"]

Init ==
    /\ rerun = Idle
    /\ \/ run = Start /\ hook = HookIdle
       \/ run = Idle /\ hook = HookStart

DoLoadChezmoi ==
    /\ run.pc = "load_chezmoi"
    /\ \E inv \in Inventories : LoadChezmoi(run, run', inv)
    /\ UNCHANGED <<rerun, hook>>

DoLoadHosts ==
    /\ run.pc = "load_hosts"
    /\ \E doc \in HostsFiles : LoadHosts(run, run', doc)
    /\ UNCHANGED <<rerun, hook>>

DoRunModule ==
    /\ \E r \in Deliveries(run) : RunModule(run, run', r)
    /\ UNCHANGED <<rerun, hook>>

DoAggregate == Aggregate(run, run') /\ UNCHANGED <<rerun, hook>>

DoSummary == Summary(run, run') /\ UNCHANGED <<rerun, hook>>

DoGetContext ==
    /\ hook.pc = "get_context"
    /\ \E ctx \in Contexts, dry_run \in BOOLEAN : GetContext(hook, hook', ctx, dry_run)
    /\ UNCHANGED <<run, rerun>>

DoMergeStep == MergeStep(hook, hook') /\ UNCHANGED <<run, rerun>>

DoRunStep ==
    /\ \E d \in HookDeliveries(hook) : RunStep(hook, hook', d)
    /\ UNCHANGED <<run, rerun>>

Next ==
    \/ DoLoadChezmoi
    \/ DoLoadHosts
    \/ DoRunModule
    \/ DoAggregate
    \/ DoSummary
    \/ DoGetContext
    \/ DoMergeStep
    \/ DoRunStep

Spec == Init /\ [][Next]_vars

(***************************************************************************)
(* One run of build.py on a host document that names the modules m1 and    *)
(* m2, from the point where the document has been loaded.                   *)
(***************************************************************************)
TwoModules ==
    <<[name |-> "m1", data |-> Mapping([option |-> <<"on">>])],
      [name |-> "m2", data |-> Mapping([option |-> <<"on">>])]>>

FoldStart ==
    [Start EXCEPT
        !.pc = "modules",
        !.inventory = [kind |-> "object", hostname |-> [t |-> "str", v |-> <<"myhost">>]],
        !.hosts_file = [kind |-> "hosts", host |-> <<"myhost">>,
                        entry |-> Mapping(TwoModules)],
        !.hostname = <<"myhost">>,
        !.host_config = TwoModules,
        !.budget = [files |-> MaxFoldFiles, scripts |-> MaxFoldScripts,
                    items |-> MaxFoldItems, diag |-> 0]]

InitFold == run = FoldStart /\ rerun = Idle /\ hook = HookIdle

NextFold ==
    \/ DoRunModule
    \/ DoAggregate
    \/ DoSummary

SpecFold == InitFold /\ [][NextFold]_vars

(***************************************************************************)
(* Two runs of build.py that are given the same inventory, the same host   *)
(* document and the same module outputs, step by step.                      *)
(***************************************************************************)
InitTwo == run = Start /\ rerun = Start /\ hook = HookIdle

TwoLoadChezmoi ==
    /\ run.pc = "load_chezmoi"
    /\ \E inv \in Inventories : LoadChezmoi(run, run', inv) /\ LoadChezmoi(rerun, rerun', inv)
    /\ UNCHANGED hook

TwoLoadHosts ==
    /\ run.pc = "load_hosts"
    /\ \E doc \in HostsFiles : LoadHosts(run, run', doc) /\ LoadHosts(rerun, rerun', doc)
    /\ UNCHANGED hook

TwoRunModule ==
    /\ \E r \in Deliveries(run) : RunModule(run, run', r) /\ RunModule(rerun, rerun', r)
    /\ UNCHANGED hook

TwoAggregate == Aggregate(run, run') /\ Aggregate(rerun, rerun') /\ UNCHANGED hook

TwoSummary == Summary(run, run') /\ Summary(rerun, rerun') /\ UNCHANGED hook

NextTwo ==
    \/ TwoLoadChezmoi
    \/ TwoLoadHosts
    \/ TwoRunModule
    \/ TwoAggregate
    \/ TwoSummary

SpecTwo == InitTwo /\ [][NextTwo]_vars

(***************************************************************************)
(* run_module on one printed document: the validation of a manifest.       *)
(***************************************************************************)
\* documents with one File whose mode is any integer up to MaxMode
ModeDocs ==
    {[files |-> <<[path |-> <<"shared.conf">>, contents |-> Inline(<<"c1">>),
                   mode |-> m]>>] : m \in 0..MaxMode}

\* the texts of an inline Resource: empty, blank, and text with and without
\* blanks around it
Texts == {<<>>, <<" ">>, <<" ", "\n">>, <<"c1">>, <<" ", "c1", "\n">>, <<"c1", " ", "c2">>}

\* documents with one inline Resource: as a File's contents, as an append
\* entry, or as a Script's content
InlineDocs ==
    {[files |-> <<[path |-> <<"shared.conf">>, contents |-> Inline(x)]>>] : x \in Texts}
    \cup {[files |-> <<[path |-> <<"shared.conf">>, append |-> <<Inline(x)>>]>>] :
             x \in Texts}
    \cup {[scripts |-> <<[name |-> <<"setup">>, content |-> Inline(x)]>>] : x \in Texts}

\* a module has printed a document and exited with status 0
Printed(doc) == [exit |-> 0, stdout |-> StdoutJson(doc), stderr |-> NoDiag]

\* how a module may end: every exit code with every kind of output stream and
\* every kind of error stream
Endings ==
    {[exit |-> c, stdout |-> o, stderr |-> e] :
        c \in {0, 1, 2},
        o \in {StdoutEmpty, StdoutBlank, StdoutText,
               StdoutJson([files |-> <<FileA>>]), StdoutJson([files |-> <<FileH>>])},
        e \in {NoDiag, <<" ", "\n">>, Diag, <<" ", "warn">>}}

ManifestStarts ==
    {[pc |-> "validate", module |-> "raw", data |-> NoneVal, result |-> r,
      outcome |-> NoneVal] :
        r \in {Printed(doc) : doc \in ModeDocs \cup InlineDocs} \cup Endings}

\* the bundled modules, each with the configurations a host may give it
Generators ==
    ({"git"} \X GitConfigs) \cup ({"ssh"} \X SshConfigs) \cup ({"fish"} \X FishConfigs)

\* run_module() is about to start a bundled module on a configuration
GeneratorStarts ==
    {[pc |-> "generate", module |-> g[1], data |-> Mapping(g[2]), result |-> NoneVal,
      outcome |-> NoneVal] : g \in Generators}

InitManifest ==
    run \in ManifestStarts \cup GeneratorStarts /\ rerun = Idle /\ hook = HookIdle

\* run_module(), lines 200-208: the subprocess runs the module's generator
\* on the payload and its result is captured
DoGenerate ==
    /\ run.pc = "generate"
    /\ \E present \in FishPresent :
           run' = [run EXCEPT
                      !.result = IF run.module = "git" THEN GitMain(run.data.v)
                                 ELSE IF run.module = "ssh" THEN SshMain(run.data.v)
                                 ELSE FishMain(run.data.v, present),
                      !.pc = "validate"]
    /\ UNCHANGED <<rerun, hook>>

\* run_module(), lines 218-230, on the result of the subprocess
DoValidate ==
    /\ run.pc = "validate"
    /\ run' = [run EXCEPT !.outcome = run_module(run.module, run.result),
                          !.pc = "validated"]
    /\ UNCHANGED <<rerun, hook>>

NextManifest ==
    \/ DoGenerate
    \/ DoValidate

SpecManifest == InitManifest /\ [][NextManifest]_vars

(***************************************************************************)
(* The fold of Files of one path under either policy of mode_merge.        *)
(***************************************************************************)
\* main(), lines 301-323, with the policy of mode_merge left open (main()
\* itself never passes relax, which is the AND policy)
FoldFileUnder(acc, file, relax) ==
    IF acc.fatal THEN acc
    ELSE LET path == Resolve(ExpandUser(file.path))
         IN IF ~IsRelativeTo(path, Cwd)
            THEN [acc EXCEPT !.log = Append(@, LogEntry("warning", "skip_path",
                                                        file.path, 0))]
            ELSE LET key == RelativeTo(path, Cwd)
                     current == Get(acc.file_sources, key)
                 IN IF current # NoneVal
                    THEN IF file.contents # NoneVal /\ current.contents # NoneVal
                         THEN [acc EXCEPT !.fatal = TRUE,
                                          !.log = Append(@, LogEntry("critical",
                                                     "duplicate_file", key, 0))]
                         ELSE [acc EXCEPT !.file_sources = Put(@, key,
                                  [current EXCEPT
                                      !.contents = IF file.contents # NoneVal
                                                   THEN file.contents ELSE @,
                                      !.append = @ \o file.append,
                                      !.mode = mode_merge(@, file.mode, relax)])]
                    ELSE [acc EXCEPT !.file_sources = Put(@, key, file)]

\* the modes a manifest may give a File: every mode of three octal digits,
\* and two with a fourth digit
MergeModes == 0..511 \cup {2541, MaxMode}

\* the Files of path shared.conf a manifest may hold: with contents, with an
\* append entry, with both or with neither, of every mode
MergeDocs ==
    {[path |-> <<"shared.conf">>, contents |-> Inline(<<"c1">>), mode |-> m] :
        m \in MergeModes}
    \cup {[path |-> <<"shared.conf">>, append |-> <<Inline(<<"a1">>)>>, mode |-> m] :
             m \in MergeModes}
    \cup {[path |-> <<"shared.conf">>, contents |-> Inline(<<"c1">>),
           append |-> <<Inline(<<"a1">>)>>, mode |-> m] : m \in MergeModes}
    \cup {[path |-> <<"shared.conf">>, mode |-> m] : m \in MergeModes}
    \cup {[path |-> <<"shared.conf">>, append |-> <<Inline(<<"a1">>)>>]}

\* the Files that pass the Manifest validation
MergeFiles == {ValidateFile(f) : f \in MergeDocs} \ {Invalid}

MergeStart(relax) ==
    [pc |-> "fold", relax |-> relax, left |-> MaxMergeSteps, file_sources |-> <<>>,
     log |-> <<>>, fatal |-> FALSE]

InitMerge == run \in {MergeStart(relax) : relax \in BOOLEAN} /\ rerun = Idle /\ hook = HookIdle

\* one validated File is folded into the table
DoFoldFile ==
    /\ run.pc = "fold"
    /\ \E file \in MergeFiles :
           LET acc == FoldFileUnder(run, file, run.relax)
           IN run' = [acc EXCEPT !.left = @ - 1,
                                 !.pc = IF acc.fatal \/ run.left = 1 THEN "exit" ELSE "fold"]
    /\ UNCHANGED <<rerun, hook>>

NextMerge == DoFoldFile

SpecMerge == InitMerge /\ [][NextMerge]_vars

(***************************************************************************)
(* What the manifests of a run contribute, read off the manifests alone.   *)
(***************************************************************************)
\* the Files and Scripts of all manifests in the order the fold meets them:
\* manifest after manifest, the Files of a manifest before its Scripts
RECURSIVE Items(_)
Items(manifests) ==
    IF manifests = <<>> THEN <<>>
    ELSE LET m == Head(manifests).value
         IN [i \in 1..Len(m.files) |-> [kind |-> "file", item |-> m.files[i]]]
            \o [i \in 1..Len(m.scripts) |-> [kind |-> "script", item |-> m.scripts[i]]]
            \o Items(Tail(manifests))

InRoot(file) == IsRelativeTo(Resolve(ExpandUser(file.path)), Cwd)

\* the table key of an item: the path relative to the build root, or the
\* derived script filename
KeyOf(it) ==
    IF it.kind = "file" THEN RelativeTo(Resolve(ExpandUser(it.item.path)), Cwd)
    ELSE script_filename(it.item)

\* item j of its collides with the earlier item i
Collides(its, i, j) ==
    /\ i < j
    /\ its[i].kind = its[j].kind
    /\ IF its[j].kind = "file"
       THEN /\ InRoot(its[i].item) /\ InRoot(its[j].item)
            /\ KeyOf(its[i]) = KeyOf(its[j])
            /\ its[i].item.contents # NoneVal /\ its[j].item.contents # NoneVal
       ELSE KeyOf(its[i]) = KeyOf(its[j])

Collisions(its) == {j \in 1..Len(its) : \E i \in 1..Len(its) : Collides(its, i, j)}

FirstCollision(its) == CHOOSE j \in Collisions(its) : \A k \in Collisions(its) : j <= k

\* the in-root Files of its that normalize to key, in fold order
RECURSIVE Contributors(_, _)
Contributors(its, key) ==
    IF its = <<>> THEN <<>>
    ELSE (IF Head(its).kind = "file" /\ InRoot(Head(its).item) /\ KeyOf(Head(its)) = key
          THEN <<Head(its).item>> ELSE <<>>)
         \o Contributors(Tail(its), key)

RECURSIVE ConcatAppends(_)
ConcatAppends(files) ==
    IF files = <<>> THEN <<>> ELSE Head(files).append \o ConcatAppends(Tail(files))

RECURSIVE AndModes(_)
AndModes(files) ==
    IF Len(files) = 1 THEN files[1].mode
    ELSE BitAnd(files[1].mode, AndModes(Tail(files)))

WithContents(files) == {i \in 1..Len(files) : files[i].contents # NoneVal}

\* main() has ended after it entered the loop over manifests
Folded(s) == s.pc = "exit" /\ s.fold > 1

LastLog(s) == s.log[Len(s.log)]

Summarised(s) == \E i \in 1..Len(s.log) : s.log[i].event = "build_summary"

Aborted(s, event) ==
    /\ s.pc = "exit" /\ s.status = 1 /\ ~Summarised(s)
    /\ s.log # <<>> /\ LastLog(s).level = "critical" /\ LastLog(s).event = event

(***************************************************************************)
(* Claims about the aggregation (checked under SpecFold).                  *)
(***************************************************************************)
FileConflict(its) == \E j \in Collisions(its) : its[j].kind = "file"

ScriptCollision(its) == \E j \in Collisions(its) : its[j].kind = "script"

\* main() ended on the first collision the fold meets, with the error of that
\* collision's kind and naming its key
AbortedOnFirstCollision(s) ==
    LET its == Items(s.manifests)
        j == FirstCollision(its)
    IN /\ Aborted(s, IF its[j].kind = "file" THEN "duplicate_file"
                     ELSE "duplicate_script")
       /\ LastLog(s).subject = KeyOf(its[j])

\* C1 as stated: whenever two Files of the manifests normalize to the same
\* in-root path and both specify contents, the build ends with the fatal
\* content-conflict error, exit status 1 and no summary.
C1_AsStated ==
    (Folded(run) /\ FileConflict(Items(run.manifests)))
        => Aborted(run, "duplicate_file")

\* C1 as amended: whenever two Files of the manifests normalize to the same
\* in-root path and both specify contents, the build ends with exit status 1
\* and no summary, on the first collision the fold meets: with the content-
\* conflict error for that path, unless two Scripts with the same filename are
\* met earlier in the fold, and then with the duplicate-script error.
C1_ConflictAborts ==
    (Folded(run) /\ FileConflict(Items(run.manifests)))
        => AbortedOnFirstCollision(run)

\* C1 witness: an append-only File came first for the path, a File with
\* contents was merged into it, and a second File with contents met the
\* content-conflict error.
C1_Witness ==
    /\ Aborted(run, "duplicate_file")
    /\ LET c == Contributors(Items(run.manifests), LastLog(run).subject)
       IN /\ Len(c) = 3
          /\ c[1].contents = NoneVal /\ c[2].contents # NoneVal
          /\ c[3].contents # NoneVal

FileKeys(its) ==
    {KeyOf(its[i]) : i \in {k \in 1..Len(its) : its[k].kind = "file" /\ InRoot(its[k].item)}}

\* the keys several Files normalize to, at most one of them with contents
MergedKeys(its) ==
    {key \in FileKeys(its) :
        /\ Len(Contributors(its, key)) >= 2
        /\ Cardinality(WithContents(Contributors(its, key))) <= 1}

\* the plan entry for key is the merge of its contributors: the contents of
\* the one contributor that has contents (None if none has), the appends of
\* all contributors concatenated in fold order, the AND of all their modes
MergedEntry(s, key) ==
    LET c == Contributors(Items(s.manifests), key)
        entry == Get(s.file_sources, key)
    IN /\ HasKey(s.file_sources, key)
       /\ entry.contents = (IF WithContents(c) = {} THEN NoneVal
                            ELSE c[CHOOSE i \in WithContents(c) : TRUE].contents)
       /\ entry.append = ConcatAppends(c)
       /\ entry.mode = AndModes(c)

\* C2 as stated: when several Files normalize to the same path and at most
\* one of them specifies contents, the build does not abort and the plan
\* entry is the merge of the contributors.
C2_AsStated ==
    Folded(run) =>
        \A key \in MergedKeys(Items(run.manifests)) :
            run.status = 0 /\ MergedEntry(run, key)

\* C2 as amended: when several Files normalize to the same path and at most
\* one of them specifies contents, no content-conflict error is raised for
\* that path; the build ends with status 0 unless some other path has two
\* Files with contents or two Scripts share a filename; and whenever it ends
\* with status 0 the plan entry is the merge of the contributors.
C2_MergedEntry ==
    Folded(run) =>
        \A key \in MergedKeys(Items(run.manifests)) :
            /\ \A i \in 1..Len(run.log) :
                   ~(run.log[i].event = "duplicate_file" /\ run.log[i].subject = key)
            /\ Collisions(Items(run.manifests)) = {} => run.status = 0
            /\ run.status = 0 => MergedEntry(run, key)

\* C2 witness: the build ended with status 0 and some entry merges an
\* append-only File with a later File that brought the contents, both with
\* append entries, and a mode that is neither contributor's mode.
C2_Witness ==
    /\ Folded(run) /\ run.status = 0
    /\ \E key \in MergedKeys(Items(run.manifests)) :
          LET c == Contributors(Items(run.manifests), key)
          IN /\ c[1].contents = NoneVal /\ c[2].contents # NoneVal
             /\ c[1].append # <<>> /\ c[2].append # <<>>
             /\ Get(run.file_sources, key).mode \notin {c[1].mode, c[2].mode}

\* the first Script of its with the given filename
FirstScript(its, name) ==
    its[CHOOSE i \in 1..Len(its) :
            /\ its[i].kind = "script" /\ KeyOf(its[i]) = name
            /\ \A k \in 1..(i - 1) : ~(its[k].kind = "script" /\ KeyOf(its[k]) = name)].item

\* every entry of the script table is the first Script the manifests hold
\* under that filename, and no filename is entered twice
ScriptTableIsFirst(s) ==
    /\ \A i, j \in 1..Len(s.script_sources) :
           s.script_sources[i].key = s.script_sources[j].key => i = j
    /\ \A i \in 1..Len(s.script_sources) :
           LET e == s.script_sources[i]
           IN /\ script_filename(e.value) = e.key
              /\ e.value = FirstScript(Items(s.manifests), e.key)

\* C3 as stated: whenever two Scripts of the manifests derive the same
\* filename the build ends with the fatal duplicate-script error, and every
\* entry of the script table is the first and only Script under its filename.
C3_AsStated ==
    /\ ScriptTableIsFirst(run)
    /\ (Folded(run) /\ ScriptCollision(Items(run.manifests)))
           => Aborted(run, "duplicate_script")

\* C3 as amended: whenever two Scripts of the manifests derive the same
\* filename the build ends with exit status 1 and no summary, on the first
\* collision the fold meets: with the duplicate-script error for that
\* filename, unless two Files with contents for one path are met earlier in
\* the fold, and then with the content-conflict error; and every entry of the
\* script table is the first and only Script under its filename.
C3_DuplicateScript ==
    /\ ScriptTableIsFirst(run)
    /\ (Folded(run) /\ ScriptCollision(Items(run.manifests)))
           => AbortedOnFirstCollision(run)

\* C3 witness: two different Scripts of two modules derived one filename, the
\* build ended with the duplicate-script error and the table holds the first.
C3_Witness ==
    /\ Aborted(run, "duplicate_script")
    /\ Len(run.manifests) = 2
    /\ Len(run.manifests[1].value.scripts) = 1
    /\ Len(run.manifests[2].value.scripts) = 1
    /\ run.manifests[1].value.scripts[1] # run.manifests[2].value.scripts[1]
    /\ Get(run.script_sources, LastLog(run).subject) = run.manifests[1].value.scripts[1]

\* the run consists of two modules that each printed one File and nothing
\* else: the first printed `first`, the second printed `second`
TwoFileScenario(s, first, second) ==
    /\ s.pc = "exit" /\ Len(s.calls) = 2
    /\ \A i \in 1..2 :
          /\ s.calls[i].result.exit = 0 /\ s.calls[i].result.stdout.kind = "json"
          /\ Has(s.calls[i].result.stdout.doc, "files")
          /\ s.calls[i].result.stdout.doc.files = <<IF i = 1 THEN first ELSE second>>
          /\ Has(s.calls[i].result.stdout.doc, "scripts")
                 => s.calls[i].result.stdout.doc.scripts = <<>>

\* the final File at shared.conf has the first File's contents, the second
\* File's append entries, and the given mode
SharedConf(s, first, second, mode) ==
    LET entry == Get(s.file_sources, <<"shared.conf">>)
    IN /\ s.status = 0 /\ Summarised(s)
       /\ \A i \in 1..Len(s.log) : s.log[i].level # "critical"
       /\ s.file_paths = <<(<<"shared.conf">>)>>
       /\ entry.contents = ValidateResource(first.contents)
       /\ entry.append = [i \in 1..Len(second.append) |->
                             ValidateResource(second.append[i])]
       /\ entry.mode = mode

\* C6 as stated: two modules emit a File at shared.conf, the first with
\* contents and mode 0o644, the second with only append entries and mode
\* 0o640: the pipeline completes without a fatal error and the final File has
\* the first's contents, the second's append entries and mode 0o640 (416).
C6_AsStated ==
    TwoFileScenario(run, FileA, FileD) => SharedConf(run, FileA, FileD, 416)

\* C6 as amended: with the second File's mode 0o640 the validator rejects the
\* second module's manifest (the digit for others, 0, is outside [4,7]) and the
\* build ends with status 1 before any aggregation; with a second mode the
\* validator accepts, here 0o645, the pipeline completes without a fatal error
\* and the final File has the first's contents, the second's append entries
\* and the AND of the two modes, 0o644 (420).
C6_SharedConf ==
    /\ TwoFileScenario(run, FileA, FileD)
          => /\ Aborted(run, "invalid_manifest")
             /\ run.fold = 1 /\ run.file_sources = <<>>
    /\ TwoFileScenario(run, FileA, FileC) => SharedConf(run, FileA, FileC, 420)

\* C6 witness: the two modules printed the File with contents and mode 0o644
\* and the append-only File with mode 0o645, and the build has ended.
C6_Witness == TwoFileScenario(run, FileA, FileC) /\ run.status = 0

(***************************************************************************)
(* Claims about a whole run of build.py (checked under Spec).              *)
(***************************************************************************)
\* C5: when a module's executable exits with a non-zero status, the build
\* ends with status 1 reporting that exit code; that module is the last one
\* started, the loop has not moved past it, nothing was aggregated and no
\* summary was made.
C5_FailFast ==
    \A i \in 1..Len(run.calls) :
        run.calls[i].result.exit # 0 =>
            /\ i = Len(run.calls)
            /\ Aborted(run, "module_failed")
            /\ LastLog(run).code = run.calls[i].result.exit
            /\ LastLog(run).subject = <<run.calls[i].name>>
            /\ run.host_config[run.idx].name = run.calls[i].name
            /\ run.fold = 1 /\ run.module_names = <<>>
            /\ run.file_sources = <<>> /\ run.script_sources = <<>>

\* C5 witness: the first of two modules exited with status 2, and the second
\* is configured with a mapping and has an executable.
C5_Witness ==
    /\ run.pc = "exit" /\ Len(run.host_config) = 2 /\ Len(run.calls) = 1
    /\ run.calls[1].result.exit = 2
    /\ run.calls[1].name = run.host_config[1].name
    /\ run.host_config[2].data.t = "map"
    /\ resolve_module_executable(run.host_config[2].name).ok

\* C7 as stated: with a host document that configures only the git module,
\* with name and email and no other key, the git module exits 0 and prints
\* one File, .gitconfig with inline contents, and the build ends with one
\* file in the plan, no fatal error and no warning.
C7_AsStated ==
    (run.pc = "exit" /\ run.host_config = <<[name |-> "git", data |-> Mapping(GitBasic)]>>)
        => /\ Len(run.calls) = 1
           /\ run.calls[1].result.exit = 0
           /\ run.calls[1].result.stdout.kind = "json"
           /\ Len(run.calls[1].result.stdout.doc.files) = 1
           /\ run.calls[1].result.stdout.doc.files[1].path = <<".gitconfig">>
           /\ run.calls[1].result.stdout.doc.files[1].contents.kind = "inline"
           /\ run.status = 0
           /\ run.file_paths = <<(<<".gitconfig">>)>>
           /\ \A i \in 1..Len(run.log) : run.log[i].level \notin {"critical", "warning"}

\* the fatal conditions the claim C9 lists, read off what the run was given
ListedFatal(s) ==
    \/ s.inventory.kind = "object"
          /\ (s.inventory.hostname.t # "str" \/ s.inventory.hostname.v = <<>>)
    \/ s.hosts_file.kind \in {"missing", "yaml_error", "no_hosts_mapping"}
    \/ s.hosts_file.kind = "hosts"
          /\ (s.hosts_file.host # s.hostname \/ s.hosts_file.entry.t # "map")
    \/ \E i \in 1..Len(s.host_config) :
          \/ s.host_config[i].data.t = "scalar"
          \/ s.host_config[i].data.t = "map"
                /\ ~resolve_module_executable(s.host_config[i].name).ok
    \/ \E i \in 1..Len(s.calls) :
          \/ s.calls[i].result.exit # 0
          \/ s.calls[i].result.stdout.kind = "empty"
          \/ s.calls[i].result.stdout.kind = "text"
          \/ s.calls[i].result.stdout.kind = "json"
                /\ ValidateManifest(s.calls[i].result.stdout.doc) = Invalid
    \/ Collisions(Items(s.manifests)) # {}

\* the inventory command failed, or printed what is not a JSON object
InventoryFatal(s) == s.inventory.kind \in {"failed", "not_json", "not_object"}

HostNulls(s) ==
    IF s.ctx.kind = "ok" /\ s.ctx.host # NoneVal
    THEN {s.ctx.host.v[i].key : i \in {k \in 1..Len(s.ctx.host.v) :
                                          s.ctx.host.v[k].value = Null}}
    ELSE {}

\* C4: a module the host document maps to null is never invoked and
\* contributes nothing. In build.main no executable is run for it, it has no
\* manifest, nothing but the warning is logged about it (no resolution error
\* either), and the warning is logged once the loop has passed it. In
\* modules_hook.main no executable is run for it, nothing of it is printed,
\* and once the merge is done it carries no configuration: its key is gone
\* when common configures the module, and is left with null, which the run
\* loop skips, when common does not.
C4_HostNullNeverInvoked ==
    /\ \A i \in 1..Len(run.host_config) :
          run.host_config[i].data = Null =>
              LET name == run.host_config[i].name
              IN /\ \A c \in 1..Len(run.calls) : run.calls[c].name # name
                 /\ ~HasKey(run.manifests, name)
                 /\ \A l \in 1..Len(run.log) :
                        run.log[l].subject = <<name>>
                            => run.log[l] = LogEntry("warning", "module_null", <<name>>, 0)
                 /\ run.idx > i
                        => \E l \in 1..Len(run.log) :
                               run.log[l] = LogEntry("warning", "module_null", <<name>>, 0)
    /\ \A name \in HostNulls(hook) :
          /\ \A k \in 1..Len(hook.invoked) : hook.invoked[k].name # name
          /\ \A k \in 1..Len(hook.printed) : hook.printed[k].name # name
          /\ hook.pc \in {"run", "exit"}
                => IF HasKey(hook.common, name) /\ Get(hook.common, name) # Null
                   THEN ~HasKey(hook.modules, name)
                   ELSE Get(hook.modules, name) = Null

\* C4 witness: the hook has returned; the host entry maps to null a module
\* that common configures, and another module was run.
C4_Witness ==
    /\ hook.pc = "exit" /\ hook.status = 0 /\ Len(hook.invoked) >= 1
    /\ \E name \in HostNulls(hook) :
          HasKey(hook.common, name) /\ Get(hook.common, name) # Null

RECURSIVE NullPaths(_)
\* the key paths of a mapping under which the value is null
NullPaths(v) ==
    IF v.t # "map" THEN {}
    ELSE UNION {IF v.v[i].value = Null THEN {<<v.v[i].key>>}
                ELSE {<<v.v[i].key>> \o p : p \in NullPaths(v.v[i].value)} :
                i \in 1..Len(v.v)}

RECURSIVE HasPath(_, _)
\* the mapping has a key at the end of the key path
HasPath(v, p) ==
    /\ v.t = "map" /\ HasKey(v.v, Head(p))
    /\ Len(p) = 1 \/ HasPath(Get(v.v, Head(p)), Tail(p))

\* C10 as stated: when common and the host entry both configure a module
\* with a mapping, a key at any depth whose host value is null is absent from
\* the configuration the module is given.
C10_AsStated ==
    \A k \in 1..Len(hook.invoked) :
        LET name == hook.invoked[k].name
            global_data == Get(hook.common, name)
            host_data == IF hook.ctx.host = NoneVal THEN NoneVal
                         ELSE Get(hook.ctx.host.v, name)
        IN (global_data \notin {NoneVal, Null} /\ host_data \notin {NoneVal, Null})
               => \A p \in NullPaths(host_data) : ~HasPath(hook.invoked[k].data, p)

RECURSIVE MergedAs(_, _, _, _)
\* eff is what the rule makes of the common value c and the host value h, both
\* mappings: a key of h alone has h's value, a key of c alone has c's value,
\* and under a key of both, two mappings are merged by the same rule, two
\* sequences give c's entries followed by h's (only h's when `replaces`), and
\* anything else gives h's value; c's keys come first, in c's order.
MergedAs(eff, c, h, replaces) ==
    /\ eff.t = "map"
    /\ Keys(eff.v) = Keys(c.v) \o SelectSeq(Keys(h.v), LAMBDA k : ~HasKey(c.v, k))
    /\ \A i \in 1..Len(eff.v) :
          LET k == eff.v[i].key
              e == eff.v[i].value
              cv == Get(c.v, k)
              hv == Get(h.v, k)
          IN IF ~HasKey(h.v, k) THEN e = cv
             ELSE IF ~HasKey(c.v, k) THEN e = hv
             ELSE IF cv.t = "map" /\ hv.t = "map" THEN MergedAs(e, cv, hv, replaces)
             ELSE IF cv.t = "list" /\ hv.t = "list" /\ ~replaces
                  THEN e = List(cv.v \o hv.v)
             ELSE e = hv

\* every module that was run, and that common and the host entry both
\* configure with a mapping, was given the merge of the two
GivenMerge(s, replaces) ==
    \A k \in 1..Len(s.invoked) :
        LET name == s.invoked[k].name
            global_data == Get(s.common, name)
            host_data == IF s.ctx.host = NoneVal THEN NoneVal
                         ELSE Get(s.ctx.host.v, name)
        IN (global_data \notin {NoneVal, Null} /\ host_data \notin {NoneVal, Null})
               => MergedAs(s.invoked[k].data, global_data, host_data, replaces)

\* C11 as stated: in the merge of modules_hook.main, under a key of both
\* documents a host scalar or a host sequence stands alone in the effective
\* value (the host sequence replaces the common one), two mappings are merged
\* by the same rule, and keys of common alone keep their value.
C11_AsStated == GivenMerge(hook, TRUE)

\* C11 as amended: as stated, except that under a key where both documents
\* have a sequence the effective value is the common sequence followed by the
\* host sequence.
C11_HostOverrides == GivenMerge(hook, FALSE)

\* C11 witness: a module was run whose common and host configuration both
\* have a sequence under the key l, and it was given the two, one after the
\* other.
C11_Witness ==
    \E k \in 1..Len(hook.invoked) :
        LET name == hook.invoked[k].name
        IN /\ Get(hook.common, name) \notin {NoneVal, Null}
           /\ Get(hook.ctx.host.v, name) \notin {NoneVal, Null}
           /\ Get(Get(hook.common, name).v, "l") = List(<<1>>)
           /\ Get(Get(hook.ctx.host.v, name).v, "l") = List(<<2>>)
           /\ Get(hook.invoked[k].data.v, "l") = List(<<1, 2>>)

\* the module names common maps to null, with their place in common
CommonNulls(s) == {i \in 1..Len(s.common) : s.common[i].value = Null}

\* what the host entry says about a module name: its value, or None
HostValue(s, name) ==
    IF s.ctx.kind # "ok" \/ s.ctx.host = NoneVal THEN NoneVal
    ELSE Get(s.ctx.host.v, name)

\* the warning about a module common maps to null is logged once the merge
\* loop has passed the module
CommonNullWarned(s, i) ==
    s.i > i => \E l \in 1..Len(s.log) :
                   s.log[l] = LogEntry("warning", "common_null", s.common[i].key, 0)

\* C12 as stated: a module common maps to null is skipped with a warning and
\* never run, whatever the host entry says about it.
C12_AsStated ==
    \A i \in CommonNulls(hook) :
        /\ CommonNullWarned(hook, i)
        /\ \A k \in 1..Len(hook.invoked) : hook.invoked[k].name # hook.common[i].key

\* C12 as amended: a module common maps to null gets the warning; it is never
\* run when the host entry does not name it or maps it to null; when the host
\* entry maps it to a mapping, that mapping alone is its configuration, and
\* the module is run with it like any module of the host entry.
C12_CommonNull ==
    \A i \in CommonNulls(hook) :
        LET name == hook.common[i].key
            host_data == HostValue(hook, name)
        IN /\ CommonNullWarned(hook, i)
           /\ IF host_data \in {NoneVal, Null}
              THEN \A k \in 1..Len(hook.invoked) : hook.invoked[k].name # name
              ELSE /\ Get(hook.modules, name) = host_data
                   /\ \A k \in 1..Len(hook.invoked) :
                          hook.invoked[k].name = name => hook.invoked[k].data = host_data
                   /\ (hook.pc = "exit" /\ ModulePaths(name) # {})
                          => \E k \in 1..Len(hook.invoked) : hook.invoked[k].name = name

\* C12 witness: the hook has returned; common maps a module to null, the host
\* entry maps it to a mapping, and the module was run with that mapping.
C12_Witness ==
    /\ hook.pc = "exit"
    /\ \E i \in CommonNulls(hook) :
          /\ HostValue(hook, hook.common[i].key) \notin {NoneVal, Null}
          /\ \E k \in 1..Len(hook.invoked) :
                /\ hook.invoked[k].name = hook.common[i].key
                /\ hook.invoked[k].data = HostValue(hook, hook.common[i].key)

(***************************************************************************)
(* Claims about the validation of a manifest (checked under SpecManifest). *)
(***************************************************************************)
\* the document was validated, and it is the one with a File of mode m
ModeValidated(s, m) ==
    /\ s.pc = "validated" /\ s.result.exit = 0 /\ s.result.stdout.kind = "json"
    /\ Has(s.result.stdout.doc, "files")
    /\ Len(s.result.stdout.doc.files) = 1
    /\ Has(s.result.stdout.doc.files[1], "mode")
    /\ s.result.stdout.doc.files[1].mode = m

\* each of the three low octal digits of m lies in [4,7]
DigitsReadable(m) ==
    /\ m % 8 >= 4
    /\ (m \div 8) % 8 >= 4
    /\ (m \div 64) % 8 >= 4

\* C13 as stated: the validator accepts a File mode m if and only if
\* 0 <= m <= 0o777 and each of the owner, group and other digits lies in
\* [4,7]; a mode with a bit above the low nine, or a digit below 4, makes the
\* manifest invalid.
C13_AsStated ==
    \A m \in 0..MaxMode :
        ModeValidated(run, m) =>
            /\ run.outcome.ok <=> (m <= 511 /\ DigitsReadable(m))
            /\ ~run.outcome.ok => run.outcome.event = "invalid_manifest"

\* C13 as amended: the validator accepts a File mode m >= 0 if and only if
\* each of the three low octal digits of m lies in [4,7]; the bits above the
\* low nine are not looked at, so 0o4755 is accepted, and the accepted File
\* keeps m as it is; any other mode makes the manifest invalid.
C13_ModeAccepted ==
    \A m \in 0..MaxMode :
        ModeValidated(run, m) =>
            /\ run.outcome.ok <=> DigitsReadable(m)
            /\ run.outcome.ok => run.outcome.manifest.files[1].mode = m
            /\ ~run.outcome.ok => run.outcome.event = "invalid_manifest"

\* C13 witness: the document with a File of mode 0o4755 (2541) was validated
\* and accepted.
C13_Witness == ModeValidated(run, 2541) /\ run.outcome.ok

\* the inline Resources of a printed document, as they were printed
RawInlines(doc) ==
    LET files == IF Has(doc, "files") THEN doc.files ELSE <<>>
        scripts == IF Has(doc, "scripts") THEN doc.scripts ELSE <<>>
    IN {files[i].contents : i \in {k \in 1..Len(files) : Has(files[k], "contents")}}
       \cup UNION {Range(files[i].append) :
                     i \in {k \in 1..Len(files) : Has(files[k], "append")}}
       \cup {scripts[i].content : i \in 1..Len(scripts)}

\* the inline Resources of an accepted manifest
Inlines(manifest) ==
    {r \in {manifest.files[i].contents : i \in 1..Len(manifest.files)}
           \cup UNION {Range(manifest.files[i].append) : i \in 1..Len(manifest.files)}
           \cup {manifest.scripts[i].content : i \in 1..Len(manifest.scripts)} :
        r # NoneVal /\ r.kind = "inline"}

\* text is raw without the blanks at its two ends
Trimmed(text, raw) ==
    /\ text = <<>> \/ (~IsSpace(Head(text)) /\ ~IsSpace(text[Len(text)]))
    /\ \E i \in 0..Len(raw), j \in 0..Len(raw) :
          /\ i + Len(text) + j = Len(raw)
          /\ \A k \in 1..Len(raw) :
                IF k <= i \/ k > i + Len(text) THEN IsSpace(raw[k])
                ELSE raw[k] = text[k - i]

\* the document was validated, and it is one of those with one inline
\* Resource
InlineValidated(s) ==
    /\ s.pc = "validated" /\ s.result.exit = 0 /\ s.result.stdout.kind = "json"
    /\ s.result.stdout.doc \in InlineDocs

\* C14 as stated: every inline Resource of an accepted manifest has text that
\* is not empty after trimming, and a manifest with an inline Resource whose
\* source is empty or blank is rejected.
C14_AsStated ==
    InlineValidated(run) =>
        /\ run.outcome.ok => \A r \in Inlines(run.outcome.manifest) : r.source # <<>>
        /\ (\E r \in RawInlines(run.result.stdout.doc) : Strip(r.source) = <<>>)
               => ~run.outcome.ok

\* C14 as amended: every inline Resource of an accepted manifest holds its
\* source without the blanks at its two ends, which may be the empty text; a
\* manifest is not rejected because an inline source is empty or blank.
C14_InlineTrimmed ==
    InlineValidated(run) =>
        /\ run.outcome.ok
        /\ \A r \in Inlines(run.outcome.manifest) :
               \E raw \in RawInlines(run.result.stdout.doc) : Trimmed(r.source, raw.source)
        /\ Cardinality(Inlines(run.outcome.manifest)) = 1

\* C14 witness: a document whose inline Resource is blank was validated and
\* accepted, the Resource now holding the empty text.
C14_Witness ==
    /\ InlineValidated(run) /\ run.outcome.ok
    /\ \E raw \in RawInlines(run.result.stdout.doc) : raw.source = <<" ", "\n">>
    /\ \A r \in Inlines(run.outcome.manifest) : r.source = <<>>

\* the process result was handed to run_module
Classified(s) == s.pc = "validated" /\ s.result \in Endings

\* C15: run_module classifies every invocation by exit code and output. A
\* non-zero exit is a failure that carries the exit code and the trimmed
\* error stream. A zero exit with an empty or blank output stream is the
\* failure "produced no output", whatever the error stream holds. A zero exit
\* with any other output goes to the validation of the manifest, which alone
\* decides the result; text on the error stream then makes a warning, and the
\* result is the one the same output gives with an empty error stream.
C15_Classified ==
    Classified(run) =>
        LET r == run.result
            out == run.outcome
        IN IF r.exit # 0
           THEN /\ ~out.ok /\ out.event = "module_failed" /\ out.code = r.exit
                /\ Trimmed(out.stderr, r.stderr)
           ELSE IF r.stdout \in {StdoutEmpty, StdoutBlank}
           THEN ~out.ok /\ out.event = "module_no_output"
           ELSE /\ out.ok <=> (r.stdout.kind = "json"
                                  /\ ValidateManifest(r.stdout.doc) # Invalid)
                /\ out.ok => out.manifest = ValidateManifest(r.stdout.doc)
                /\ ~out.ok => out.event = "invalid_manifest"
                /\ out.warned <=> (\E i \in 1..Len(r.stderr) : ~IsSpace(r.stderr[i]))

\* C15 witness: a module exited with status 0, printed a valid manifest and
\* wrote a diagnostic to its error stream; the manifest was accepted, with a
\* warning.
C15_Witness ==
    /\ Classified(run)
    /\ run.result.exit = 0 /\ run.result.stderr = Diag
    /\ run.result.stdout = StdoutJson([files |-> <<FileA>>])
    /\ run.outcome.ok /\ run.outcome.warned

(***************************************************************************)
(* C16: Files outside the build root                                       *)
(***************************************************************************)

\* the paths of the Files that resolve outside the build root, in fold order
OutsidePaths(its) ==
    LET idx == {i \in 1..Len(its) : its[i].kind = "file" /\ ~InRoot(its[i].item)}
        RECURSIVE From(_)
        From(i) == IF i > Len(its) THEN <<>>
                   ELSE IF i \in idx THEN <<its[i].item.path>> \o From(i + 1)
                   ELSE From(i + 1)
    IN From(1)

\* the subjects of the "skip_path" warnings of a log, in log order
SkipWarnings(log) ==
    LET RECURSIVE From(_)
        From(i) == IF i > Len(log) THEN <<>>
                   ELSE IF log[i].event = "skip_path" /\ log[i].level = "warning"
                        THEN <<log[i].subject>> \o From(i + 1)
                   ELSE From(i + 1)
    IN From(1)

\* a table key that names a place inside the build root: relative, not
\* empty, with no parent step left
InsideRoot(key) ==
    /\ key # <<>>
    /\ Head(key) \notin {"/", "~"}
    /\ ".." \notin Range(key)

\* C16: a File whose path resolves outside the build root is skipped with
\* a warning and leaves the file table unchanged, so every key of the table
\* names a path inside the build root: at every moment each key is the
\* relative path of a File inside the root; once a build has folded all its
\* manifests without aborting, it has warned once for each File outside
\* the root, in order, the keys are exactly those of the Files inside the
\* root and each entry is made of the Files inside the root alone; a build
\* aborts in the fold only over a collision among the other items.
C16_OutOfRootSkipped ==
    LET its == Items(run.manifests)
    IN /\ \A i \in 1..Len(run.file_sources) :
              /\ InsideRoot(run.file_sources[i].key)
              /\ run.file_sources[i].key \in FileKeys(its)
       /\ Folded(run) /\ run.status = 0 =>
              /\ SkipWarnings(run.log) = OutsidePaths(its)
              /\ Range(Keys(run.file_sources)) = FileKeys(its)
              /\ \A key \in FileKeys(its) : MergedEntry(run, key)
       /\ Folded(run) /\ run.status = 1 => Collisions(its) # {}

\* C16 witness: a build that ended with status 0 folded a File outside the
\* build root together with Files inside it, warned about the one and holds
\* an entry for the others.
C16_Witness ==
    LET its == Items(run.manifests)
    IN /\ Folded(run) /\ run.status = 0
       /\ OutsidePaths(its) # <<>>
       /\ SkipWarnings(run.log) = OutsidePaths(its)
       /\ run.file_sources # <<>>
       /\ \E i, j \in 1..Len(its) :
              /\ i < j /\ its[i].kind = "file" /\ its[j].kind = "file"
              /\ ~InRoot(its[i].item) /\ InRoot(its[j].item)

(***************************************************************************)
(* C17: the bundled generators against the build's Manifest validation     *)
(***************************************************************************)

\* C17 as stated: whenever a bundled generator (git, fish or ssh) exits
\* with status 0, what it printed is accepted by the build's Manifest
\* validation.
C17_AsStated ==
    run.pc = "validated" /\ run.module \in {"git", "fish", "ssh"}
        /\ run.result.exit = 0
    => run.outcome.ok

\* the same for the git and fish generators alone
C17_GitFishAccepted ==
    run.pc = "validated" /\ run.module \in {"git", "fish"} /\ run.result.exit = 0
    => run.outcome.ok

\* the ssh generator's lot: every document it prints is rejected
C17_SshRejected ==
    run.pc = "validated" /\ run.module = "ssh" /\ run.result.exit = 0
    => ~run.outcome.ok /\ run.outcome.event = "invalid_manifest"

C17_GitWitness ==
    run.pc = "validated" /\ run.module = "git" /\ run.result.exit = 0 /\ run.outcome.ok

C17_FishWitness ==
    run.pc = "validated" /\ run.module = "fish" /\ run.result.exit = 0 /\ run.outcome.ok
       /\ Len(run.outcome.manifest.files) >= 4

C17_SshWitness ==
    run.pc = "validated" /\ run.module = "ssh" /\ run.result.exit = 0
       /\ Len(run.result.stdout.doc.files) >= 4

(***************************************************************************)
(* C18: the order of invocations and of the fold                           *)
(***************************************************************************)

\* the names of the modules a run has invoked, in the order of invocation
CallNames(s) == [i \in 1..Len(s.calls) |-> s.calls[i].name]

\* the names of the first n entries of the host document that are mappings,
\* in the order of the document
RECURSIVE MapNames(_, _)
MapNames(hc, n) ==
    IF n = 0 THEN <<>>
    ELSE MapNames(hc, n - 1)
         \o (IF hc[n].data.t = "map" THEN <<hc[n].name>> ELSE <<>>)

\* the fold has begun
FoldBegun(s) ==
    \/ s.pc \in {"aggregate", "summary"}
    \/ s.fold > 1
    \/ s.file_sources # <<>> \/ s.script_sources # <<>>
    \/ s.status = 0

\* what C18 says of one state of a build
InHostOrder(s) ==
    LET hc == s.host_config
        all == MapNames(hc, Len(hc))
    IN /\ IsPrefix(CallNames(s), all)
       /\ \A i, j \in 1..Len(s.calls) : i # j => s.calls[i].name # s.calls[j].name
       /\ IsPrefix(Keys(s.manifests), CallNames(s))
       /\ Len(s.calls) - Len(s.manifests) \in {0, 1}
       /\ Len(s.calls) # Len(s.manifests) => s.pc = "exit" /\ s.status = 1
       /\ s.pc = "modules" =>
              /\ CallNames(s) = MapNames(hc, s.idx - 1)
              /\ Keys(s.manifests) = CallNames(s)
       /\ FoldBegun(s) =>
              /\ s.idx = Len(hc) + 1
              /\ CallNames(s) = all
              /\ Keys(s.manifests) = all
       /\ Folded(s) /\ s.status = 0 =>
              \A key \in FileKeys(Items(s.manifests)) : MergedEntry(s, key)

\* what C18 says of one step of a build: an invocation is of the module the
\* loop stands at, a build that has ended invokes nothing more, and the
\* fold takes the manifests one at a time and invokes nothing
OneAfterAnother(s, t) ==
    /\ t.calls # s.calls =>
           /\ s.pc = "modules"
           /\ Len(t.calls) = Len(s.calls) + 1
           /\ SubSeq(t.calls, 1, Len(s.calls)) = s.calls
           /\ t.calls[Len(t.calls)].name = s.host_config[s.idx].name
           /\ s.host_config[s.idx].data.t = "map"
    /\ s.pc = "exit" => t = s
    /\ t.fold # s.fold =>
           /\ t.fold = s.fold + 1
           /\ t.calls = s.calls
           /\ t.manifests = s.manifests

\* C18: the modules whose configuration is not null are resolved and
\* invoked one after another in the order of their names in the host
\* document, each once and none again after a failure, and their manifests
\* are folded in that same order, the fold beginning only when the last
\* invocation has returned.
C18_HostOrder == [](InHostOrder(run)) /\ [][OneAfterAnother(run, run')]_vars

\* C18 witness: a build of a host document with two mappings invoked both
\* modules, folded both manifests and ended with status 0.
C18_Witness ==
    /\ Folded(run) /\ run.status = 0
    /\ Len(run.calls) = 2 /\ run.fold = 3
    /\ CallNames(run) = <<run.host_config[1].name, run.host_config[2].name>>
    /\ run.file_sources # <<>>

\* a build invoked its first module, which failed, and ended at once
C18_FailureWitness ==
    /\ run.pc = "exit" /\ run.status = 1
    /\ Len(run.host_config) = 2 /\ run.host_config[2].data.t = "map"
    /\ Len(run.calls) = 1 /\ run.manifests = <<>>

(***************************************************************************)
(* C19: the order of the output of a successful build                      *)
(***************************************************************************)

\* the number of entries of the host document that are null
NullEntries(hc) == Cardinality({i \in 1..Len(hc) : hc[i].data.t = "null"})

\* a successful build has ended
Succeeded(s) == s.pc = "exit" /\ s.status = 0

Prefixed(dir, prefix) == {e.name : e \in {x \in dir.entries : Head(x.name) = prefix /\ x.exec}}

\* the smallest of a set of names in sorted order
Smallest(S) == CHOOSE x \in S : \A y \in S \ {x} : LexLess(x, y)

\* every module build.py has invoked was started from the smallest
\* executable entry of its directory that carries the prefix "generate"
BuildChoosesSmallest ==
    \A i \in 1..Len(run.calls) :
        LET name == run.calls[i].name
        IN run.calls[i].executable
               = <<"modules", name>> \o Smallest(Prefixed(ModuleDirs[name], "generate"))

\* every module modules_hook.py has found in a directory was started from
\* the smallest executable entry of the directory that carries the prefix
\* "default"
HookChoosesSmallest ==
    \A i \in 1..Len(hook.invoked) :
        LET name == hook.invoked[i].name
        IN HookTree(name).kind = "dir" =>
               hook.invoked[i].path = name \o Smallest(Prefixed(HookTree(name), "default"))

\* C20 as stated: both module locators choose, among the directory entries
\* that carry the discovery prefix and are executable, the one whose name is
\* smallest in sorted order, whatever the order in which the directory is
\* enumerated.
C20_AsStated == BuildChoosesSmallest /\ HookChoosesSmallest

\* the half of C20 that is about build.resolve_module_executable
C20_BuildSorted == BuildChoosesSmallest

\* build.py invoked a module whose directory holds two entries with the
\* prefix, the smaller of them not executable
C20_BuildWitness ==
    \E i \in 1..Len(run.calls) :
        /\ run.calls[i].name = "m2"
        /\ run.calls[i].executable = <<"modules", "m2", "generate", ".sh">>

\* modules_hook.py started a module from an entry that is not the smallest
C20_HookWitness ==
    \E i \in 1..Len(hook.invoked) :
        /\ hook.invoked[i].name = UserB
        /\ hook.invoked[i].path = UserB \o <<"default", ".sh">>

(***************************************************************************)
(* C21: the Files of the table stay valid                                  *)
(***************************************************************************)

\* the owner, group and other digits of a mode each lie in [4,7]
DigitsInRange(m) ==
    /\ (m \div 64) % 8 \in 4..7
    /\ (m \div 8) % 8 \in 4..7
    /\ m % 8 \in 4..7

\* a File of the table the validator would let pass
ValidEntry(f) ==
    /\ DigitsInRange(f.mode)
    /\ f.contents # NoneVal \/ Len(f.append) >= 1

\* C21: after any sequence of inserts and merges, under the AND policy and
\* under the OR policy of mode_merge alike, every File of the file table has
\* a mode whose owner, group and other digits each lie in [4,7] and has
\* contents or at least one append entry.
C21_EntriesStayValid ==
    \A i \in 1..Len(run.file_sources) : ValidEntry(run.file_sources[i].value)

\* C21 witness under the AND policy: the entry was merged twice and its mode
\* is lower than the mode of each File that went into it
C21_Witness ==
    /\ Has(run, "relax") /\ ~run.relax /\ run.left = 0 /\ ~run.fatal
    /\ Len(run.file_sources) = 1
    /\ Len(run.file_sources[1].value.append) >= 2
    /\ run.file_sources[1].value.mode = 292

\* C21 witness under the OR policy: the entry was merged twice and holds every
\* permission and a fourth digit
C21_RelaxWitness ==
    /\ Has(run, "relax") /\ run.relax /\ run.left = 0 /\ ~run.fatal
    /\ Len(run.file_sources) = 1
    /\ Len(run.file_sources[1].value.append) >= 2
    /\ run.file_sources[1].value.mode = MaxMode

(***************************************************************************)
(* C22: the derived filename of a Script                                   *)
(***************************************************************************)

\* the validated Scripts of the manifests of a run
ScriptsOf(s) ==
    LET its == Items(s.manifests)
    IN {its[i].item : i \in {k \in 1..Len(its) : its[k].kind = "script"}}

\* C22 as stated: script_filename is injective on valid Scripts: two Scripts
\* get the same derived filename only if they have the same type and the same
\* trimmed name, so the duplicate-script error is raised only for Scripts
\* that agree on both.
C22_AsStated ==
    \A a, b \in ScriptsOf(run) :
        script_filename(a) = script_filename(b) => a.type = b.type /\ a.name = b.name

\* Scripts of one type get the same derived filename only if they have the
\* same name
C22_InjectiveWithinType ==
    \A a, b \in ScriptsOf(run) :
        a.type = b.type /\ script_filename(a) = script_filename(b) => a.name = b.name

\* a build ended with the duplicate-script error over two Scripts that
\* differ in type and in name
C22_Collision ==
    /\ Aborted(run, "duplicate_script")
    /\ \E a, b \in ScriptsOf(run) :
           /\ a.type # b.type /\ a.name # b.name
           /\ script_filename(a) = script_filename(b)
           /\ LastLog(run).subject = script_filename(a)

(***************************************************************************)
(* C23: the paths of a fish manifest                                       *)
(***************************************************************************)

\* the fish module was run on a configuration it accepts, and the build has
\* validated what it printed
FishAccepted(s) ==
    s.pc = "validated" /\ s.module = "fish" /\ s.result.exit = 0 /\ s.outcome.ok

\* the fold of one manifest alone, from empty tables
FoldAlone(manifest, module_name) ==
    FoldScripts(FoldFiles([file_sources |-> <<>>, script_sources |-> <<>>,
                           log |-> <<>>, fatal |-> FALSE],
                          manifest.files, module_name),
                manifest.scripts, module_name)

\* C23 as stated: for every input it accepts, the fish module emits a
\* manifest in which no two Files share the same path, so a fish manifest on
\* its own never runs into the fatal content-conflict check of the fold.
C23_AsStated ==
    FishAccepted(run) =>
        LET files == run.outcome.manifest.files
        IN /\ \A i, j \in 1..Len(files) : i # j => files[i].path # files[j].path
           /\ ~FoldAlone(run.outcome.manifest, "fish").fatal

\* the fish module, given a function named manual_config, printed two Files
\* with contents for one path, and the fold of its manifest alone ends with
\* the content-conflict error
C23_Conflict ==
    /\ FishAccepted(run)
    /\ \E i, j \in 1..Len(run.outcome.manifest.files) :
           /\ i < j
           /\ run.outcome.manifest.files[i].path = run.outcome.manifest.files[j].path
           /\ run.outcome.manifest.files[i].path
                  = <<".config", "fish", "functions", "manual_config.fish">>
    /\ FoldAlone(run.outcome.manifest, "fish").fatal

\* without a function named after a file the module writes itself, the
\* paths of a fish manifest differ
C23_OtherNamesDistinct ==
    FishAccepted(run)
        /\ (Has(run.data.v, "functions") =>
               \A i \in 1..Len(run.data.v.functions) :
                   Strip(run.data.v.functions[i].key)
                       \notin {<<"manual_config">>, <<"fisher_check">>})
    => LET files == run.outcome.manifest.files
       IN \A i, j \in 1..Len(files) : i # j => files[i].path # files[j].path

====
